---- MODULE Spec2Model ----
(***************************************************************************)
(* A model of the Kyoto Cabinet file hash database (HashDB, kchashdb.h)    *)
(* on top of its file abstraction (File, kcfile.cc, the POSIX variant).    *)
(*                                                                         *)
(* The data file is modelled byte by byte with the layout of the source:   *)
(* a 64 byte header, the free block pool dump, the bucket array and the    *)
(* record area.  The write-ahead log is modelled as its list of messages.  *)
(* Every function of the source is an operator over a machine record       *)
(*   M = [db, core, disk, steps, ok, err]                                  *)
(* where db holds the fields of HashDB, core the fields of FileCore, disk  *)
(* the persistent files, steps the persistent states the call went         *)
(* through (one per write to a file: where a process can die), ok the      *)
(* return value and err the last error code of the calling thread.         *)
(***************************************************************************)
EXTENDS Integers, Sequences, FiniteSets, TLC

VARIABLES db, core, disk, lk, th, gh

vars == <<db, core, disk, lk, th, gh>>

(***************************************************************************)
(* Program constants.                                                      *)
(***************************************************************************)
HDBMOFFLIBVER == 4
HDBMOFFLIBREV == 5
HDBMOFFFMTVER == 6
HDBMOFFCHKSUM == 7
HDBMOFFTYPE == 8
HDBMOFFAPOW == 9
HDBMOFFFPOW == 10
HDBMOFFOPTS == 11
HDBMOFFBNUM == 16
HDBMOFFFLAGS == 24
HDBMOFFCOUNT == 32
HDBMOFFSIZE == 40
HDBMOFFOPAQUE == 48
HDBHEADSIZ == 64
HDBFBPWIDTH == 6
HDBWIDTHLARGE == 6
HDBWIDTHSMALL == 4
HDBRECBUFSIZ == 48
HDBRLOCKSLOT == 64
HDBDEFAPOW == 3
HDBMAXAPOW == 15
HDBDEFFPOW == 10
HDBMAXFPOW == 20
HDBDEFMSIZ == 67108864
HDBRECMAGIC == 204
HDBPADMAGIC == 238
HDBFBMAGIC == 221
HDBDFRGMAX == 512
HDBDFRGCEF == 2
UINT16_MAX == 65535
INT16_MAX == 32767
INT64_MAX == 1073741823
TSMALL == 1
TLINEAR == 2
TCOMPRESS == 4
FOPEN == 1
FFATAL == 2
TYPEHASH == 17
WALHEADSIZ == 12
WALMSGHEADSIZ == 17
WALMAPSIZ == 262144
PAGESIZE == 4096

(***************************************************************************)
(* Bounds of the model.                                                    *)
(***************************************************************************)
NumKeys == 3
MaxOps == 2

(***************************************************************************)
(* Bytes and numbers.                                                      *)
(***************************************************************************)
Min(a, b) == IF a < b THEN a ELSE b
Max(a, b) == IF a > b THEN a ELSE b
Zeros(n) == <<>> \o [i \in 1..n |-> 0]

RECURSIVE Pow2(_)
Pow2(n) == IF n = 0 THEN 1 ELSE 2 * Pow2(n - 1)

\* bitwise and/or/xor of two naturals
RECURSIVE BitOp(_, _, _)
BitOp(op, a, b) ==
    IF a = 0 /\ b = 0 THEN 0
    ELSE LET x == a % 2
             y == b % 2
             z == CASE op = "and" -> IF x = 1 /\ y = 1 THEN 1 ELSE 0
                    [] op = "or" -> IF x = 1 \/ y = 1 THEN 1 ELSE 0
                    [] OTHER -> IF x # y THEN 1 ELSE 0
         IN z + 2 * BitOp(op, a \div 2, b \div 2)

\* writefixnum of kcutil.h: num in width bytes, most significant first
RECURSIVE writefixnum(_, _)
writefixnum(num, width) ==
    IF width = 0 THEN <<>>
    ELSE Append(writefixnum(num \div 256, width - 1), num % 256)

\* readfixnum of kcutil.h.  Offsets of the model stay far below INT64_MAX;
\* a number read from bytes that are no number saturates there.
RECURSIVE readfixnum(_)
readfixnum(buf) ==
    IF buf = <<>> THEN 0
    ELSE LET hi == readfixnum(SubSeq(buf, 1, Len(buf) - 1))
         IN IF hi >= INT64_MAX \div 256 THEN INT64_MAX ELSE hi * 256 + buf[Len(buf)]

\* ntoh64 into an int64_t field: the eight bytes of the header as a signed
\* number, the first byte the highest
ntoh64(buf) ==
    IF buf[1] >= 128 THEN 0 - (readfixnum([i \in 1..Len(buf) |-> 255 - buf[i]]) + 1)
    ELSE readfixnum(buf)

\* writevarnum of kcutil.h: 7 bits a byte, most significant first, the top
\* bit set on every byte but the last
RECURSIVE writevarnum(_)
writevarnum(num) ==
    IF num < 128 THEN <<num>>
    ELSE LET hi == writevarnum(num \div 128)
         IN [i \in 1..Len(hi) |-> IF i = Len(hi) THEN hi[i] + 128 ELSE hi[i]]
               \o <<num % 128>>

\* readvarnum of kcutil.h: [step |-> bytes read (0: none), num |-> the number]
RECURSIVE readvarnumFrom(_, _, _)
readvarnumFrom(buf, i, acc) ==
    IF i > Len(buf) THEN [step |-> 0, num |-> 0]
    ELSE LET c == buf[i]
             n == IF acc >= INT64_MAX \div 128 THEN INT64_MAX ELSE acc * 128 + (c % 128)
         IN IF c < 128 THEN [step |-> i, num |-> n]
            ELSE readvarnumFrom(buf, i + 1, n)
readvarnum(buf) == readvarnumFrom(buf, 1, 0)

(***************************************************************************)
(* The persistent files.  disk.data holds the bytes written so far,        *)
(* disk.fsize the size of the file (bytes after the data are zero),        *)
(* disk.wal the WAL file.                                                  *)
(***************************************************************************)
NoWal == [exists |-> FALSE, magic |-> FALSE, osiz |-> 0, msgs |-> <<>>, bad |-> "none"]
ZeroWal == [exists |-> TRUE, magic |-> FALSE, osiz |-> 0, msgs |-> <<>>, bad |-> "none"]
NoDisk == [data |-> <<>>, fsize |-> 0, wal |-> NoWal]

GetBytes(dk, off, size) ==
    LET have == Max(Min(off + size, Len(dk.data)) - off, 0)
    IN SubSeq(dk.data, off + 1, off + have) \o Zeros(size - have)

PutBytes(data, off, buf) ==
    LET end == off + Len(buf)
        base == IF Len(data) >= end THEN data ELSE data \o Zeros(end - Len(data))
    IN SubSeq(base, 1, off) \o buf \o SubSeq(base, end + 1, Len(base))

\* one more persistent state the call went through
Snap(M) == [M EXCEPT !.steps = Append(@, M.disk)]

\* msync(2) or fsync(2) in a hard transaction: from here on the device
\* holds what the file held at this point
Sync(M, what) == [M EXCEPT !.steps = Append(@, [sync |-> what])]

\* ftruncate(2) on the data file
ftruncate(M, size) ==
    Snap([M EXCEPT !.disk.fsize = size,
                   !.disk.data = IF Len(@) > size THEN SubSeq(@, 1, size) ELSE @])

\* memcpy into the mapped region, or pwrite(2): the bytes land in the file
StoreBytes(M, off, buf) ==
    Snap([M EXCEPT !.disk.data = PutBytes(@, off, buf),
                   !.disk.fsize = Max(@, off + Len(buf))])

Fail(M) == [M EXCEPT !.ok = FALSE]
Succeed(M) == [M EXCEPT !.ok = TRUE]

NewCore == [open |-> FALSE, msiz |-> 0, lsiz |-> 0, psiz |-> 0, recov |-> FALSE,
            walopen |-> FALSE, walsiz |-> 0, tran |-> FALSE, trhard |-> FALSE,
            trbase |-> 0, trmsiz |-> 0]

RoundUp(n, unit) == IF n % unit > 0 THEN (n + unit) - (n % unit) ELSE n

(***************************************************************************)
(* File (kcfile.cc).  The WAL file holds its magic data, the original size *)
(* of the data file and the messages; a cleared WAL starts with a zero.    *)
(***************************************************************************)

\* The member functions of File and HashDB call one another by name.
RECURSIVE Invoke(_, _)

\* a walwrite that logs nothing
walwrite_nolog(M, off0, size0, base) == Succeed(M)

\* a walwrite that does not clip the region at the base offset
walwrite_unclipped(M, off0, size0, base) ==
    LET rem == M.core.trmsiz - off0
    IN IF rem < 1 THEN Succeed(M)
       ELSE LET msg == [off |-> off0, body |-> GetBytes(M.disk, off0, Min(size0, rem))]
            IN Succeed(Snap([M EXCEPT !.disk.wal.msgs = Append(@, msg),
                                      !.core.walsiz = @ + WALMSGHEADSIZ + Min(size0, rem)]))

\* walwrite: log the current content of the region [off, off+size), clipped
\* below at base and above at the size the file had when the transaction
\* began, before the region is overwritten
walwrite(M, off0, size0, base) ==
    IF off0 < base /\ base - off0 >= size0 THEN Succeed(M)
    ELSE LET off == Max(off0, base)
             size1 == IF off0 < base THEN size0 - (base - off0) ELSE size0
             rem == M.core.trmsiz - off
         IN IF rem < 1 THEN Succeed(M)
            ELSE LET size == Min(size1, rem)
                     msg == [off |-> off, body |-> GetBytes(M.disk, off, size)]
                     Flushed(M1) == IF M.core.trhard THEN Sync(M1, "wal") ELSE M1
                 IN Succeed(Flushed(Snap([M EXCEPT !.disk.wal.msgs = Append(@, msg),
                                                   !.core.walsiz = @ + WALMSGHEADSIZ + size])))

RECURSIVE WalEnd(_, _)
WalEnd(msgs, i) ==
    IF i = 0 THEN 0 ELSE Max(WalEnd(msgs, i - 1), msgs[i].off + Len(msgs[i].body))

\* a replay of the WAL from its first message to its last
RECURSIVE WalReplay_forward(_, _, _)
WalReplay_forward(M, msgs, i) ==
    IF i = 0 THEN M
    ELSE StoreBytes(WalReplay_forward(M, msgs, i - 1), msgs[i].off, msgs[i].body)

\* the loop of walapply writing the messages back, the last one first
RECURSIVE WalReplay(_, _, _)
WalReplay(M, msgs, i) ==
    IF i = 0 THEN M
    ELSE WalReplay(StoreBytes(M, msgs[i].off, msgs[i].body), msgs, i - 1)

\* walapply: restore the logged regions and the original size.  wal.bad
\* tells what is wrong with the file: "magic" when its first bytes are not
\* the magic data and not zero, "msgmagic" when the message after msgs
\* does not start with the magic byte, "short" when that message is
\* shorter than its header says.  The messages read before the bad one are
\* written back, and the call fails.
walapply(M) ==
    LET wal == M.disk.wal
    IN IF wal.bad = "magic" THEN Fail(M)
       ELSE IF ~wal.magic THEN Succeed(M)
       ELSE LET end == Min(WalEnd(wal.msgs, Len(wal.msgs)), M.core.msiz)
                M1 == IF M.core.psiz < end THEN ftruncate(M, end) ELSE M
                M2 == WalReplay(M1, wal.msgs, Len(wal.msgs))
                M3 == ftruncate(M2, wal.osiz)
                M4 == [M3 EXCEPT !.core.lsiz = wal.osiz, !.core.psiz = wal.osiz]
            IN IF wal.bad = "none" THEN Succeed(M4) ELSE Fail(M4)

\* File::open; mode is the set of the open mode flags
File_open(M, mode, msiz) ==
    LET D0 == IF "OWRITER" \in mode /\ "OTRUNCATE" \in mode
              THEN [M.disk EXCEPT !.data = <<>>, !.fsize = 0] ELSE M.disk
        M0 == [M EXCEPT !.disk = D0, !.core = NewCore]
        recov == ("OWRITER" \notin mode \/ "OTRUNCATE" \notin mode)
                    /\ "ONOLOCK" \notin mode /\ D0.wal.exists
        rsiz == RoundUp(msiz, PAGESIZE)
        Mapped(M2, lsiz) ==
            Succeed([M2 EXCEPT !.core = [NewCore EXCEPT
                !.open = TRUE, !.lsiz = lsiz, !.psiz = lsiz, !.recov = recov,
                !.msiz = IF "OWRITER" \notin mode /\ rsiz > lsiz THEN lsiz ELSE rsiz]])
        Sized(M2) == Mapped(M2, M2.disk.fsize)
        Recovered(M1) == Sized(IF recov THEN Snap([M1 EXCEPT !.disk.wal = NoWal]) ELSE M1)
    IN Recovered(IF recov /\ D0.wal.magic /\ D0.wal.bad # "magic"
                 THEN Snap([Invoke("walapply", <<M0>>) EXCEPT !.disk.wal = ZeroWal]) ELSE M0)

\* File::write: logged when a transaction is on; grows the file by pages
File_write(M, off, buf) ==
    LET end == off + Len(buf)
        Stored(M3) == Succeed(StoreBytes([M3 EXCEPT !.core.lsiz = Max(@, end)], off, buf))
        Grown(M1, psiz) == [ftruncate(M1, psiz) EXCEPT !.core.psiz = psiz]
        Beyond(M2) ==
            Stored(IF end > M2.core.psiz
                   THEN [(IF M2.core.psiz < M2.core.msiz THEN ftruncate(M2, M2.core.msiz)
                          ELSE M2) EXCEPT !.core.psiz = end]
                   ELSE M2)
        Logged(M1) ==
            IF end <= M1.core.msiz
            THEN Stored(IF end > M1.core.psiz
                        THEN Grown(M1, Min(RoundUp(end + (M1.core.psiz \div 2), PAGESIZE),
                                           M1.core.msiz))
                        ELSE M1)
            ELSE Beyond(IF off < M1.core.msiz /\ end > M1.core.psiz
                        THEN Grown(M1, end) ELSE M1)
    IN IF Len(buf) < 1 THEN Succeed(M)
       ELSE Logged(IF M.core.tran THEN Invoke("walwrite", <<M, off, Len(buf), M.core.trbase>>) ELSE M)

\* File::write_fast: logged when a transaction is on; no size bookkeeping
File_write_fast(M, off, buf) ==
    LET M1 == IF M.core.tran THEN Invoke("walwrite", <<M, off, Len(buf), M.core.trbase>>) ELSE M
    IN Succeed(StoreBytes(M1, off, buf))

\* File::read: [ok, buf]; fails out of the logical size
File_read(M, off, size) ==
    IF off + size > M.core.lsiz THEN [ok |-> FALSE, buf |-> <<>>]
    ELSE [ok |-> TRUE, buf |-> GetBytes(M.disk, off, size)]

\* File::read_fast: no bounds check
File_read_fast(M, off, size) == [ok |-> TRUE, buf |-> GetBytes(M.disk, off, size)]

\* File::truncate: the cut tail is logged when a transaction is on
File_truncate(M, size) ==
    LET M1 == IF M.core.tran /\ size < M.core.trmsiz
              THEN [Invoke("walwrite", <<M, size, M.core.trmsiz - size, M.core.trbase>>)
                       EXCEPT !.core.trmsiz = size]
              ELSE M
    IN Succeed([ftruncate(M1, size) EXCEPT !.core.lsiz = size, !.core.psiz = size])

\* File::begin_transaction: creates the WAL file on first use and writes its
\* header; off is the offset below which writes are not logged
File_begin_transaction(M, hard, off) ==
    LET Created(M0) == IF hard THEN Sync(M0, "wal") ELSE M0
        M1 == IF ~M.core.walopen
              THEN Created(Snap([M EXCEPT !.disk.wal = ZeroWal, !.core.walopen = TRUE]))
              ELSE M
        M2 == Snap([M1 EXCEPT !.disk.wal.magic = TRUE])
        M3 == Snap([M2 EXCEPT !.disk.wal.osiz = M.core.lsiz])
    IN Succeed([M3 EXCEPT !.core.walsiz = WALHEADSIZ, !.core.tran = TRUE,
                          !.core.trhard = hard, !.core.trbase = off,
                          !.core.trmsiz = M.core.lsiz])

\* File::end_transaction: on abort replays the WAL; then clears it in the
\* mapped region; a hard transaction then flushes the data file and the WAL
File_end_transaction(M, commit) ==
    LET M1 == IF ~commit THEN Invoke("walapply", <<M>>) ELSE Succeed(M)
        M2 == IF M1.ok THEN Snap([M1 EXCEPT !.disk.wal = ZeroWal]) ELSE M1
        M3 == IF M.core.trhard THEN Sync(Sync(M2, "data"), "wal") ELSE M2
    IN [M3 EXCEPT !.core.tran = FALSE]

\* a write_transaction clipped like the other writes: the header is below
\* the base offset and is not logged
File_write_transaction_clipped(M, off, size) == Invoke("walwrite", <<M, off, size, M.core.trbase>>)

\* File::write_transaction: log a region whatever the base offset
File_write_transaction(M, off, size) == Invoke("walwrite", <<M, off, size, 0>>)

\* File::close: aborts a transaction left open, removes the WAL file and
\* cuts the file to its logical size
File_close(M) ==
    LET Cut(M2, err) ==
            [(IF M2.core.psiz # M2.core.lsiz THEN ftruncate(M2, M2.core.lsiz) ELSE M2)
                EXCEPT !.core = NewCore, !.ok = ~err]
        Ended(M1) == Cut(IF M1.core.walopen THEN Snap([M1 EXCEPT !.disk.wal = NoWal]) ELSE M1,
                         M.core.tran /\ ~M1.ok)
    IN Ended(IF M.core.tran THEN Invoke("File_end_transaction", <<M, FALSE>>) ELSE M)

File_size(M) == M.core.lsiz

(***************************************************************************)
(* HashDB (kchashdb.h): construction and meta data.                        *)
(***************************************************************************)
HDBMAGICDATA == <<75, 67, 10, 0>>
LIBVER == 1
LIBREV == 2
FMTVER == 3

HasFlag(flags, flag) == (flags \div flag) % 2 = 1
SetFlag(flags, flag) == IF HasFlag(flags, flag) THEN flags ELSE flags + flag
ClearFlag(flags, flag) == IF HasFlag(flags, flag) THEN flags - flag ELSE flags

\* HashDB::HashDB followed by the tune_* calls made before open
NewDB(tune) ==
    [omode |-> {}, writer_ |-> FALSE, autotran_ |-> FALSE, autosync_ |-> FALSE,
     reorg_ |-> FALSE, trim_ |-> FALSE, fbp_ |-> {}, curs_ |-> <<>>,
     libver_ |-> LIBVER, librev_ |-> LIBREV, fmtver_ |-> FMTVER, chksum_ |-> 0,
     type_ |-> TYPEHASH, apow_ |-> tune.apow, fpow_ |-> tune.fpow, opts_ |-> tune.opts,
     bnum_ |-> tune.bnum, flags_ |-> 0, flagopen_ |-> FALSE, count_ |-> 0, lsiz_ |-> 0,
     psiz_ |-> 0, msiz_ |-> tune.msiz, dfunit_ |-> tune.dfunit,
     align_ |-> 0, fbpnum_ |-> 0, width_ |-> 0, linear_ |-> FALSE, rhsiz_ |-> 0,
     boff_ |-> 0, roff_ |-> 0, dfcur_ |-> 0, frgcnt_ |-> 0,
     tran_ |-> FALSE, trhard_ |-> FALSE, trfbp_ |-> {}]

\* HashDB::set_error: BROKEN and SYSTEM raise the fatal flag
set_error(M, code) ==
    [M EXCEPT !.err = code, !.ok = FALSE,
              !.db.flags_ = IF code \in {"BROKEN", "SYSTEM"} THEN SetFlag(@, FFATAL) ELSE @]

\* HashDB::tune_type: the argument is an int8_t, the field a uint8_t
tune_type(M, type) ==
    IF M.db.omode # {} THEN set_error(M, "INVALID")
    ELSE Succeed([M EXCEPT !.db.type_ = type % 256])

\* a tune_alignment that takes the power as it is given
tune_alignment_unclamped(M, apow) ==
    IF M.db.omode # {} THEN set_error(M, "INVALID")
    ELSE Succeed([M EXCEPT !.db.apow_ = IF apow >= 0 THEN apow ELSE HDBDEFAPOW])

\* HashDB::tune_alignment
tune_alignment(M, apow) ==
    IF M.db.omode # {} THEN set_error(M, "INVALID")
    ELSE Succeed([M EXCEPT !.db.apow_ = Min(IF apow >= 0 THEN apow ELSE HDBDEFAPOW, HDBMAXAPOW)])

\* HashDB::tune_fbp
tune_fbp(M, fpow) ==
    IF M.db.omode # {} THEN set_error(M, "INVALID")
    ELSE Succeed([M EXCEPT !.db.fpow_ = Min(IF fpow >= 0 THEN fpow ELSE HDBDEFFPOW, HDBMAXFPOW)])

\* HashDB::calc_meta
calc_meta(M) ==
    LET d == M.db
        align == Pow2(d.apow_)
        fbpnum == IF d.fpow_ > 0 THEN Pow2(d.fpow_) ELSE 0
        width == IF HasFlag(d.opts_, TSMALL) THEN HDBWIDTHSMALL ELSE HDBWIDTHLARGE
        linear == HasFlag(d.opts_, TLINEAR)
        rhsiz == 2 + 2 + (IF linear THEN width ELSE width * 2)
        boff == HDBHEADSIZ + HDBFBPWIDTH * fbpnum
                 + (IF fbpnum > 0 THEN width * 2 + 2 ELSE 0)
        roff == RoundUp(boff + width * d.bnum_, align)
    IN [M EXCEPT !.db.align_ = align, !.db.fbpnum_ = fbpnum, !.db.width_ = width,
                 !.db.linear_ = linear, !.db.rhsiz_ = rhsiz, !.db.boff_ = boff,
                 !.db.roff_ = roff, !.db.dfcur_ = roff, !.db.frgcnt_ = 0,
                 !.db.tran_ = FALSE]

\* HashDB::calc_checksum: a byte folded from the hash of a fixed seed
calc_checksum == 129

\* a dump_meta that leaves the record count out of the header
dump_meta_nocount(M) ==
    LET d == M.db
        flags == IF ~d.flagopen_ THEN ClearFlag(d.flags_, FOPEN) ELSE d.flags_
        head == HDBMAGICDATA
                 \o <<d.libver_, d.librev_, d.fmtver_, d.chksum_, d.type_, d.apow_,
                      d.fpow_, d.opts_>>
                 \o Zeros(4) \o writefixnum(d.bnum_, 8) \o <<flags>> \o Zeros(7)
                 \o Zeros(8) \o writefixnum(d.lsiz_, 8) \o Zeros(16)
    IN Invoke("File_write", <<M, 0, head>>)

\* HashDB::dump_meta: the whole header; the open flag goes to the file only
\* if the file carried it when it was opened
dump_meta(M) ==
    LET d == M.db
        flags == IF ~d.flagopen_ THEN ClearFlag(d.flags_, FOPEN) ELSE d.flags_
        head == HDBMAGICDATA
                 \o <<d.libver_, d.librev_, d.fmtver_, d.chksum_, d.type_, d.apow_,
                      d.fpow_, d.opts_>>
                 \o Zeros(4) \o writefixnum(d.bnum_, 8) \o <<flags>> \o Zeros(7)
                 \o writefixnum(d.count_, 8) \o writefixnum(d.lsiz_, 8) \o Zeros(16)
    IN Invoke("File_write", <<M, 0, head>>)

\* HashDB::dump_auto_meta: the count and the size only
dump_auto_meta(M) ==
    Invoke("File_write_fast", <<M, HDBMOFFCOUNT, writefixnum(M.db.count_, 8) \o writefixnum(M.db.lsiz_, 8)>>)

\* HashDB::load_meta
load_meta(M) ==
    IF File_size(M) < HDBHEADSIZ THEN set_error(M, "INVALID")
    ELSE LET head == Invoke("File_read", <<M, 0, HDBHEADSIZ>>).buf
         IN IF SubSeq(head, 1, 4) # HDBMAGICDATA THEN set_error(M, "INVALID")
            ELSE LET lsiz == ntoh64(SubSeq(head, HDBMOFFSIZE + 1, HDBMOFFSIZE + 8))
                 IN Succeed([M EXCEPT
                       !.db.libver_ = head[HDBMOFFLIBVER + 1],
                       !.db.librev_ = head[HDBMOFFLIBREV + 1],
                       !.db.fmtver_ = head[HDBMOFFFMTVER + 1],
                       !.db.chksum_ = head[HDBMOFFCHKSUM + 1],
                       !.db.type_ = head[HDBMOFFTYPE + 1],
                       !.db.apow_ = head[HDBMOFFAPOW + 1],
                       !.db.fpow_ = head[HDBMOFFFPOW + 1],
                       !.db.opts_ = head[HDBMOFFOPTS + 1],
                       !.db.bnum_ = ntoh64(SubSeq(head, HDBMOFFBNUM + 1, HDBMOFFBNUM + 8)),
                       !.db.flags_ = head[HDBMOFFFLAGS + 1],
                       !.db.flagopen_ = HasFlag(head[HDBMOFFFLAGS + 1], FOPEN),
                       !.db.count_ = ntoh64(SubSeq(head, HDBMOFFCOUNT + 1, HDBMOFFCOUNT + 8)),
                       !.db.lsiz_ = lsiz,
                       !.db.psiz_ = lsiz])

\* HashDB::set_flag: on the file and in memory
set_flag(M, flag, sign) ==
    LET cur == Invoke("File_read", <<M, HDBMOFFFLAGS, 1>>).buf[1]
        flags == IF sign THEN SetFlag(cur, flag) ELSE ClearFlag(cur, flag)
    IN [Invoke("File_write", <<M, HDBMOFFFLAGS, <<flags>>>>) EXCEPT !.db.flags_ = flags]

(***************************************************************************)
(* Keys, hashing, buckets and chains.                                      *)
(***************************************************************************)
\* the key of number k as bytes
KeyOf(k) == <<96 + k>>

\* hashmurmur of kcutil.h, as a table over the keys of the model; the 64 bit
\* hash is its four 16 bit parts, the most significant first
hashmurmur(kbuf) ==
    CASE kbuf = KeyOf(1) -> <<0, 0, 5, 0>>
      [] kbuf = KeyOf(2) -> <<0, 0, 3, 0>>
      [] kbuf = KeyOf(3) -> <<5, 0, 0, 0>>
      [] kbuf = KeyOf(4) -> <<0, 0, 7, 1>>
      [] kbuf = KeyOf(5) -> <<0, 0, 9, 3>>
      [] OTHER -> <<0, 0, Len(kbuf), IF Len(kbuf) > 0 THEN kbuf[1] ELSE 0>>

hash_record(kbuf) == hashmurmur(kbuf)

\* HashDB::fold_hash: the upper half of the hash, its 16 bit parts swapped,
\* xor the lower half, its parts swapped
fold_hash(hash) ==
    BitOp("xor", hash[2], hash[4]) * 65536 + BitOp("xor", hash[1], hash[3])

\* hash % bnum_ over the four parts
HashMod(hash, bnum) ==
    ((((((hash[1] % bnum) * 65536 + hash[2]) % bnum) * 65536 + hash[3]) % bnum) * 65536
        + hash[4]) % bnum

\* a comparison that takes keys of one pivot for the same key
compare_keys_equal(a, b) == 0

\* HashDB::compare_keys: by size, then by content
RECURSIVE memcmp(_, _, _)
memcmp(a, b, i) ==
    IF i > Len(a) THEN 0
    ELSE IF a[i] # b[i] THEN a[i] - b[i] ELSE memcmp(a, b, i + 1)
compare_keys(a, b) == IF Len(a) # Len(b) THEN Len(a) - Len(b) ELSE memcmp(a, b, 1)

\* a set_chain that writes nothing
set_chain_nowrite(M, entoff, off) == Succeed(M)

\* HashDB::set_bucket, get_bucket, set_chain
set_bucket(M, bidx, off) ==
    Invoke("File_write_fast", <<M, M.db.boff_ + bidx * M.db.width_,
                    writefixnum(off \div M.db.align_, M.db.width_)>>)
get_bucket(M, bidx) ==
    LET v == readfixnum(Invoke("File_read_fast", <<M, M.db.boff_ + bidx * M.db.width_, M.db.width_>>).buf)
    IN IF v >= INT64_MAX \div M.db.align_ THEN INT64_MAX ELSE v * M.db.align_
set_chain(M, entoff, off) ==
    Invoke("File_write_fast", <<M, entoff, writefixnum(off \div M.db.align_, M.db.width_)>>)

(***************************************************************************)
(* Records and free blocks.                                                *)
(***************************************************************************)
NoRecord(off, code) ==
    [ok |-> FALSE, err |-> code, off |-> off, rsiz |-> 0, psiz |-> 0, ksiz |-> 0,
     vsiz |-> 0, left |-> 0, right |-> 0, kbuf |-> <<>>, vbuf |-> <<>>, boff |-> 0]

ShiftLeft(num, align) == IF num >= INT64_MAX \div align THEN INT64_MAX ELSE num * align

\* the part of read_record parsing a record of padding size psiz, with
\* read_record_body: the key and the value come from the buffer when they
\* fit in it and from the file otherwise
ParseRecord(M, off, rbuf, psiz) ==
    LET d == M.db
        w == d.width_
        left == ShiftLeft(readfixnum(SubSeq(rbuf, 3, 2 + w)), d.align_)
        right == IF d.linear_ THEN 0
                 ELSE ShiftLeft(readfixnum(SubSeq(rbuf, 3 + w, 2 + 2 * w)), d.align_)
        p1 == 2 + (IF d.linear_ THEN w ELSE 2 * w)
        Sized(ksiz, vsiz, hsiz, rem) ==
            IF rem >= ksiz /\ rem - ksiz >= vsiz /\ psiz > 0 /\ rem - ksiz - vsiz > 0
                 /\ rbuf[hsiz + ksiz + vsiz + 1] # HDBPADMAGIC
            THEN NoRecord(off, "BROKEN")
            ELSE IF off + hsiz + ksiz + vsiz > Max(M.core.psiz, M.disk.fsize)
            THEN NoRecord(off, "SYSTEM")
            ELSE [ok |-> TRUE, err |-> "SUCCESS", off |-> off,
                  rsiz |-> hsiz + ksiz + vsiz + psiz, psiz |-> psiz,
                  ksiz |-> ksiz, vsiz |-> vsiz, left |-> left, right |-> right,
                  kbuf |-> GetBytes(M.disk, off + hsiz, ksiz),
                  vbuf |-> GetBytes(M.disk, off + hsiz + ksiz, vsiz),
                  boff |-> off + hsiz]
        Nums(kn, vn) ==
            IF kn.step < 1 \/ vn.step < 1 THEN NoRecord(off, "BROKEN")
            ELSE Sized(kn.num, vn.num, p1 + kn.step + vn.step,
                       Len(rbuf) - (p1 + kn.step + vn.step))
        Key(kn) == Nums(kn, readvarnum(SubSeq(rbuf, p1 + kn.step + 1, Len(rbuf))))
    IN Key(readvarnum(SubSeq(rbuf, p1 + 1, Len(rbuf))))

\* HashDB::read_record: a record, or a free block (psiz = UINT16_MAX)
read_record(M, off) ==
    LET d == M.db
        avail == d.psiz_ - off
        size == IF avail > HDBRECBUFSIZ THEN HDBRECBUFSIZ ELSE d.rhsiz_
        w == d.width_
        Block(rbuf, rsiz) ==
            IF rbuf[1] # HDBFBMAGIC \/ rbuf[2] # HDBFBMAGIC
                 \/ rbuf[3 + w] # HDBPADMAGIC \/ rbuf[4 + w] # HDBPADMAGIC
                 \/ rsiz < d.rhsiz_
            THEN NoRecord(off, "BROKEN")
            ELSE [NoRecord(off, "SUCCESS") EXCEPT !.ok = TRUE, !.rsiz = rsiz,
                                                  !.psiz = UINT16_MAX]
        Marked(rbuf) ==
            IF rbuf[1] = HDBRECMAGIC THEN ParseRecord(M, off, rbuf, rbuf[2])
            ELSE IF rbuf[1] >= 128
            THEN Block(rbuf, ShiftLeft(readfixnum(SubSeq(rbuf, 3, 2 + w)), d.align_))
            ELSE IF rbuf[1] = 0 THEN NoRecord(off, "BROKEN")
            ELSE ParseRecord(M, off, rbuf, rbuf[1] * 256 + rbuf[2])
    IN IF off < d.roff_ THEN NoRecord(off, "BROKEN")
       ELSE IF avail <= HDBRECBUFSIZ /\ avail < d.rhsiz_ THEN NoRecord(off, "BROKEN")
       ELSE Marked(Invoke("File_read_fast", <<M, off, size>>).buf)

\* the bytes write_record lays out for a record
RecordBytes(M, rec) ==
    LET d == M.db
        snum == <<IF rec.psiz < 256 THEN HDBRECMAGIC ELSE (rec.psiz \div 256) % 256,
                  rec.psiz % 256>>
        pad == IF rec.psiz > 0 THEN <<HDBPADMAGIC>> \o Zeros(rec.psiz - 1) ELSE <<>>
        all == snum \o writefixnum(rec.left \div d.align_, d.width_)
                 \o (IF d.linear_ THEN <<>> ELSE writefixnum(rec.right \div d.align_, d.width_))
                 \o writevarnum(rec.ksiz) \o writevarnum(rec.vsiz)
                 \o rec.kbuf \o rec.vbuf \o pad
    IN SubSeq(all \o Zeros(Max(rec.rsiz - Len(all), 0)), 1, rec.rsiz)

\* HashDB::write_record: in place (over) or growing the file
write_record(M, rec, over) ==
    IF over THEN Invoke("File_write_fast", <<M, rec.off, RecordBytes(M, rec)>>)
    ELSE Invoke("File_write", <<M, rec.off, RecordBytes(M, rec)>>)

VarnumSize(n) ==
    IF n < 128 THEN 1 ELSE IF n < 16384 THEN 2 ELSE IF n < 2097152 THEN 3
    ELSE IF n < 268435456 THEN 4 ELSE 5

\* HashDB::calc_record_size, calc_record_padding
calc_record_size(M, ksiz, vsiz) ==
    2 + M.db.width_ + (IF M.db.linear_ THEN 0 ELSE M.db.width_)
      + VarnumSize(ksiz) + VarnumSize(vsiz) + ksiz + vsiz
calc_record_padding(M, rsiz) ==
    LET diff == rsiz % M.db.align_ IN IF diff > 0 THEN M.db.align_ - diff ELSE 0

\* HashDB::escape_cursors, trim_cursors, disable_cursors: a cursor is the
\* offset of its record (0 when it is disabled) and the end of its range
EscapeCursor(cur, off, dest) ==
    LET c1 == IF cur.end = off
              THEN [off |-> IF cur.off >= dest THEN 0 ELSE cur.off, end |-> dest]
              ELSE cur
    IN IF c1.off = off
       THEN [c1 EXCEPT !.off = IF dest >= c1.end THEN 0 ELSE dest]
       ELSE c1

\* an escape_cursors that leaves every cursor where it is
escape_cursors_none(M, off, dest) == M

escape_cursors(M, off, dest) ==
    [M EXCEPT !.db.curs_ = [i \in 1..Len(@) |-> EscapeCursor(@[i], off, dest)]]
trim_cursors(M) ==
    [M EXCEPT !.db.curs_ = [i \in 1..Len(@) |->
        IF @[i].off >= M.db.lsiz_ THEN [@[i] EXCEPT !.off = 0]
        ELSE IF @[i].end > M.db.lsiz_ THEN [@[i] EXCEPT !.end = M.db.lsiz_]
        ELSE @[i]]]
disable_cursors(M) ==
    [M EXCEPT !.db.curs_ = [i \in 1..Len(@) |-> [@[i] EXCEPT !.off = 0]]]

\* a write_free_block that leaves the bytes of the record in place
write_free_block_skip(M, off, rsiz) == Succeed(M)

\* HashDB::write_free_block: the marker of a free block of rsiz bytes
write_free_block(M, off, rsiz) ==
    Invoke("File_write_fast", <<M, off, <<HDBFBMAGIC, HDBFBMAGIC>>
                              \o writefixnum(rsiz \div M.db.align_, M.db.width_)
                              \o <<HDBPADMAGIC, HDBPADMAGIC>>>>)

\* FreeBlock::operator <: smaller first, of equal sizes the higher offset first
FreeBlockLess(a, b) == a.rsiz < b.rsiz \/ (a.rsiz = b.rsiz /\ a.off > b.off)
PoolFirst(fbp) == CHOOSE a \in fbp : \A b \in fbp \ {a} : FreeBlockLess(a, b)

\* an insert_free_block that adds the block to a full pool too
insert_free_block_unbounded(M, off, rsiz) ==
    [escape_cursors(M, off, off + rsiz) EXCEPT !.db.fbp_ = @ \cup {[off |-> off, rsiz |-> rsiz]}]

\* HashDB::insert_free_block: a full pool gives up its first block for a
\* bigger one and ignores any other
insert_free_block(M, off, rsiz) ==
    LET M1 == escape_cursors(M, off, off + rsiz)
        fbp == M1.db.fbp_
        fb == [off |-> off, rsiz |-> rsiz]
    IN IF M1.db.fbpnum_ < 1 THEN M1
       ELSE IF Cardinality(fbp) >= M1.db.fbpnum_
       THEN LET it == PoolFirst(fbp)
            IN IF rsiz <= it.rsiz THEN M1
               ELSE [M1 EXCEPT !.db.fbp_ = (fbp \ {it}) \cup {fb}]
       ELSE [M1 EXCEPT !.db.fbp_ = fbp \cup {fb}]

\* a fetch_free_block that takes the largest block
fetch_free_block_largest(M, rsiz) ==
    LET cand == {b \in M.db.fbp_ : b.rsiz >= rsiz}
        it == CHOOSE a \in cand : \A b \in cand : a.rsiz > b.rsiz \/ (a.rsiz = b.rsiz /\ a.off <= b.off)
    IN IF M.db.fbpnum_ < 1 \/ cand = {} THEN [ok |-> FALSE, fb |-> [off |-> 0, rsiz |-> 0], m |-> M]
       ELSE [ok |-> TRUE, fb |-> it,
             m |-> escape_cursors([M EXCEPT !.db.fbp_ = @ \ {it}], it.off, it.off + it.rsiz)]

\* the block fetch_free_block takes: the first one not smaller than rsiz
FetchCandidates(M, rsiz) == {b \in M.db.fbp_ : b.rsiz >= rsiz}
fetch_free_block(M, rsiz) ==
    LET cand == FetchCandidates(M, rsiz)
    IN IF M.db.fbpnum_ < 1 \/ cand = {} THEN [ok |-> FALSE, fb |-> [off |-> 0, rsiz |-> 0], m |-> M]
       ELSE LET it == PoolFirst(cand)
                M1 == [M EXCEPT !.db.fbp_ = @ \ {it}]
            IN [ok |-> TRUE, fb |-> it, m |-> escape_cursors(M1, it.off, it.off + it.rsiz)]

\* HashDB::trim_free_blocks
trim_free_blocks(M, begin, end) ==
    [M EXCEPT !.db.fbp_ = {b \in @ : ~(b.off >= begin /\ b.off < end)}]

\* an adjust_record that leaves every padding in its slot
adjust_record_whole(M, rec) == [rec |-> rec, m |-> M]

\* HashDB::adjust_record: [rec, m]; a padding too large becomes a free block
adjust_record(M, rec) ==
    LET nsiz == (rec.psiz \div M.db.align_) * M.db.align_
    IN IF (rec.psiz > INT16_MAX \/ rec.psiz > rec.rsiz \div 2) /\ nsiz >= M.db.rhsiz_
       THEN LET nrec == [rec EXCEPT !.rsiz = @ - nsiz, !.psiz = @ - nsiz]
                noff == nrec.off + nrec.rsiz
            IN [rec |-> nrec, m |-> Invoke("insert_free_block", <<Invoke("write_free_block", <<M, noff, nsiz>>), noff, nsiz>>)]
       ELSE [rec |-> rec, m |-> M]

(***************************************************************************)
(* Bucket chains.                                                          *)
(***************************************************************************)
\* the most records a chain can hold; a walk that takes more steps runs in a
\* cycle and never returns
ChainFuel(M) == (Max(M.db.psiz_, M.db.roff_) - M.db.roff_) \div M.db.align_ + 1

\* the walk of accept_impl and shift_record down a chain for a key:
\* [ok, err, found, rec, entoff], entoff the slot that points to the record
\* (when found) or to where it belongs (when not), 0 for the bucket slot
RECURSIVE ChainSearch(_, _, _, _, _, _)
ChainSearch(M, kbuf, pivot, off, entoff, fuel) ==
    LET Stop(ok, err, found, rec) ==
            [ok |-> ok, err |-> err, found |-> found, rec |-> rec, entoff |-> entoff]
        Turn(rec, tpivot, kcmp) ==
            IF pivot > tpivot \/ (pivot = tpivot /\ kcmp > 0)
            THEN ChainSearch(M, kbuf, pivot, rec.left, rec.off + 2, fuel - 1)
            ELSE IF pivot < tpivot \/ (pivot = tpivot /\ kcmp < 0)
            THEN ChainSearch(M, kbuf, pivot, rec.right, rec.off + 2 + M.db.width_, fuel - 1)
            ELSE Stop(TRUE, "SUCCESS", TRUE, rec)
        Compared(rec, kc) ==
            Turn(rec, IF M.db.linear_ THEN pivot ELSE fold_hash(hash_record(rec.kbuf)),
                 IF M.db.linear_ /\ kc # 0 THEN 1 ELSE kc)
        Visit(rec) ==
            IF ~rec.ok THEN Stop(FALSE, rec.err, FALSE, rec)
            ELSE IF rec.psiz = UINT16_MAX THEN Stop(FALSE, "BROKEN", FALSE, rec)
            ELSE Compared(rec, compare_keys(kbuf, rec.kbuf))
    IN IF off <= 0 THEN Stop(TRUE, "SUCCESS", FALSE, NoRecord(0, "SUCCESS"))
       ELSE IF fuel = 0 THEN Stop(FALSE, "HANG", FALSE, NoRecord(off, "HANG"))
       ELSE Visit(Invoke("read_record", <<M, off>>))

\* a loop of cut_chain that stops at the first record under prec
Rightmost_first(M, off, pentoff, fuel) ==
    LET Visit(prec) ==
            IF ~prec.ok THEN [ok |-> FALSE, err |-> prec.err, prec |-> prec, pentoff |-> pentoff]
            ELSE [ok |-> TRUE, err |-> "SUCCESS", prec |-> prec, pentoff |-> pentoff]
    IN Visit(Invoke("read_record", <<M, off>>))

\* the loop of cut_chain to the rightmost record under prec:
\* [ok, err, prec, pentoff]
RECURSIVE Rightmost(_, _, _, _)
Rightmost(M, off, pentoff, fuel) ==
    LET Visit(prec) ==
            IF ~prec.ok THEN [ok |-> FALSE, err |-> prec.err, prec |-> prec, pentoff |-> pentoff]
            ELSE IF prec.psiz = UINT16_MAX
            THEN [ok |-> FALSE, err |-> "BROKEN", prec |-> prec, pentoff |-> pentoff]
            ELSE IF fuel = 0
            THEN [ok |-> FALSE, err |-> "HANG", prec |-> prec, pentoff |-> pentoff]
            ELSE IF prec.right < 1
            THEN [ok |-> TRUE, err |-> "SUCCESS", prec |-> prec, pentoff |-> pentoff]
            ELSE Rightmost(M, prec.right, prec.off + 2 + M.db.width_, fuel - 1)
    IN Visit(Invoke("read_record", <<M, off>>))

\* the end of cut_chain and of the linking: the slot that pointed to the
\* record now points to child
LinkEntry(M, bidx, entoff, child) ==
    IF entoff > 0 THEN Invoke("set_chain", <<M, entoff, child>>) ELSE Invoke("set_bucket", <<M, bidx, child>>)

\* a cut_chain that leaves the chain as it is
cut_chain_keep(M, rec, bidx, entoff) == Succeed(M)

\* HashDB::cut_chain: take a record out of its chain; when it has both
\* children, the rightmost record of its left subtree takes its place
cut_chain(M, rec, bidx, entoff) ==
    LET Raise(rm, off) ==
            IF ~rm.ok THEN set_error(M, rm.err)
            ELSE LinkEntry(Invoke("set_chain", <<Invoke("set_chain", <<Invoke("set_chain", <<M, rm.pentoff, rm.prec.left>>),
                                               off + 2, rec.left>>),
                                     off + 2 + M.db.width_, rec.right>>),
                           bidx, entoff, off)
        Lifted(rm) == Raise(rm, rm.prec.off)
        Left(prec) ==
            IF ~prec.ok THEN set_error(M, prec.err)
            ELSE IF prec.psiz = UINT16_MAX THEN set_error(M, "BROKEN")
            ELSE IF prec.right > 0
            THEN Lifted(Rightmost(M, prec.right, prec.off + 2 + M.db.width_, ChainFuel(M)))
            ELSE LinkEntry(Invoke("set_chain", <<M, prec.off + 2 + M.db.width_, rec.right>>),
                           bidx, entoff, prec.off)
    IN IF rec.left > 0 /\ rec.right < 1 THEN LinkEntry(M, bidx, entoff, rec.left)
       ELSE IF rec.left < 1 /\ rec.right > 0 THEN LinkEntry(M, bidx, entoff, rec.right)
       ELSE IF rec.left < 1 THEN LinkEntry(M, bidx, entoff, 0)
       ELSE Left(Invoke("read_record", <<M, rec.left>>))

\* a shift_record that writes the record at dest and leaves the chain
\* pointing to where it was
shift_record_nolink(M, orec, dest) == Invoke("write_record", <<M, [orec EXCEPT !.off = dest], TRUE>>)

\* HashDB::shift_record: write the record orec at dest and repoint the slot
\* that pointed to it
shift_record(M, orec, dest) ==
    LET nrec == [orec EXCEPT !.off = dest]
        Found(s, bidx) ==
            IF ~s.ok THEN set_error(M, s.err)
            ELSE IF ~s.found THEN set_error(M, "BROKEN")
            ELSE LinkEntry(Invoke("write_record", <<M, nrec, TRUE>>), bidx, s.entoff, dest)
        Chain(hash, bidx, off) ==
            IF off = orec.off THEN Invoke("set_bucket", <<Invoke("write_record", <<M, nrec, TRUE>>), bidx, dest>>)
            ELSE Found(ChainSearch(M, orec.kbuf, fold_hash(hash), off, 0, ChainFuel(M)), bidx)
        Bucket(hash, bidx) == Chain(hash, bidx, Invoke("get_bucket", <<M, bidx>>))
        Hashed(hash) == Bucket(hash, HashMod(hash, M.db.bnum_))
    IN Hashed(hash_record(orec.kbuf))

(***************************************************************************)
(* Defragmentation.                                                        *)
(***************************************************************************)
\* the first loop of defrag_impl: skip the records up to the first free
\* block; [m, step, rec, done]
RECURSIVE DefragScan(_, _, _)
DefragScan(M, step, end) ==
    LET Visit(rec) ==
            IF ~rec.ok
            THEN [m |-> set_error(M, rec.err), step |-> step, rec |-> rec, done |-> TRUE]
            ELSE IF rec.psiz = UINT16_MAX
            THEN [m |-> M, step |-> step - 1, rec |-> rec, done |-> FALSE]
            ELSE DefragScan([M EXCEPT !.db.dfcur_ = @ + rec.rsiz], step - 1, end)
    IN IF M.db.dfcur_ >= end
       THEN [m |-> Succeed([M EXCEPT !.db.dfcur_ = M.db.roff_]), step |-> step,
             rec |-> NoRecord(0, "SUCCESS"), done |-> TRUE]
       ELSE IF step < 1
       THEN [m |-> Succeed(M), step |-> step, rec |-> NoRecord(0, "SUCCESS"), done |-> TRUE]
       ELSE Visit(Invoke("read_record", <<M, M.db.dfcur_>>))

\* the second loop of defrag_impl: move the records after the free block
\* down to dest, dropping the padding beyond the alignment; [m, dest]
RECURSIVE DefragMove(_, _, _, _)
DefragMove(M, step, end, dest) ==
    LET Shifted(M2, nrec) ==
            IF ~M2.ok THEN [m |-> M2, dest |-> dest]
            ELSE DefragMove(M2, step - 1, end, dest + nrec.rsiz)
        Trimmed(M1, nrec) == Shifted(Invoke("shift_record", <<M1, nrec, dest>>), nrec)
        Escaped(M1, rec, diff) ==
            IF rec.psiz = UINT16_MAX THEN DefragMove(M1, step - 1, end, dest)
            ELSE Trimmed(M1, [rec EXCEPT !.psiz = @ - diff, !.rsiz = @ - diff])
        Visit(rec) ==
            IF ~rec.ok THEN [m |-> set_error(M, rec.err), dest |-> dest]
            ELSE Escaped([escape_cursors(M, rec.off, dest) EXCEPT !.db.dfcur_ = @ + rec.rsiz],
                         rec,
                         IF rec.psiz >= M.db.align_
                         THEN rec.psiz - (rec.psiz % M.db.align_) ELSE 0)
    IN IF ~(step > 0 /\ M.db.dfcur_ < end) THEN [m |-> Succeed(M), dest |-> dest]
       ELSE Visit(Invoke("read_record", <<M, M.db.dfcur_>>))

\* HashDB::defrag_impl
defrag_impl(M, step) ==
    LET end == M.db.lsiz_
        Cut(M3) == [trim_cursors(M3) EXCEPT !.db.dfcur_ = M3.db.roff_]
        Left(M2, dest, rsiz) ==
            [Invoke("insert_free_block", <<Invoke("write_free_block", <<M2, dest, rsiz>>), dest, rsiz>>)
                EXCEPT !.db.dfcur_ = dest]
        Pooled(M2, dest) ==
            IF M2.db.dfcur_ >= end
            THEN Cut(Invoke("File_truncate", <<[M2 EXCEPT !.db.lsiz_ = dest, !.db.psiz_ = dest], dest>>))
            ELSE Left(M2, dest, M2.db.dfcur_ - dest)
        Moved(mv, base) ==
            IF ~mv.m.ok THEN mv.m
            ELSE Pooled(trim_free_blocks(mv.m, base, mv.m.db.dfcur_), mv.dest)
        Scanned(sc) ==
            IF sc.done THEN sc.m
            ELSE Moved(DefragMove([sc.m EXCEPT !.db.dfcur_ = @ + sc.rec.rsiz],
                                  sc.step + 1, end, sc.m.db.dfcur_),
                       sc.m.db.dfcur_)
    IN Scanned(DefragScan(M, step, end))

(***************************************************************************)
(* Transactions of the database.                                           *)
(***************************************************************************)
\* the blocks begin_transaction_impl copies: the last cnt of the pool
RECURSIVE PoolLast(_, _)
PoolLast(fbp, cnt) ==
    IF cnt = 0 \/ fbp = {} THEN {}
    ELSE LET it == CHOOSE a \in fbp : \A b \in fbp \ {a} : FreeBlockLess(b, a)
         IN {it} \cup PoolLast(fbp \ {it}, cnt - 1)

\* HashDB::begin_transaction_impl
begin_transaction_impl(M) ==
    LET Logged(M3) ==
            IF M3.db.fbpnum_ > 0
            THEN [M3 EXCEPT !.db.trfbp_ = @ \cup PoolLast(M3.db.fbp_, M3.db.fpow_ * 2 + 1)]
            ELSE M3
        Begun(M2) == Logged(Invoke("File_write_transaction", <<M2, HDBMOFFBNUM, HDBHEADSIZ - HDBMOFFBNUM>>))
        Dumped(M1) == Begun(Invoke("File_begin_transaction", <<M1, M1.db.trhard_, M1.db.boff_>>))
    IN Dumped(Invoke("dump_meta", <<M>>))

\* HashDB::commit_transaction
commit_transaction(M) ==
    [Invoke("File_end_transaction", <<Invoke("dump_meta", <<M>>), TRUE>>) EXCEPT !.db.trfbp_ = {}]

\* an abort that keeps what the transaction has written
abort_transaction_keep(M) == Invoke("commit_transaction", <<M>>)

\* HashDB::abort_transaction
abort_transaction(M) ==
    LET Ended(E) ==
            LET Loaded(M3) ==
                    [disable_cursors(calc_meta(M3)) EXCEPT !.db.fbp_ = M3.db.trfbp_,
                                                           !.db.trfbp_ = {},
                                                           !.ok = E.ok /\ M3.ok]
            IN Loaded(Invoke("load_meta", <<IF E.ok THEN E ELSE set_error(E, "SYSTEM")>>))
    IN Ended(Invoke("File_end_transaction", <<M, FALSE>>))

(***************************************************************************)
(* Locks (kcthread.h).  mlock_ is a set of <<thread, mode>>, rlock_ a set   *)
(* of <<slot, thread, mode>>; the mode is "r" or "w".                      *)
(***************************************************************************)
NoLocks == [mlock |-> {}, rlock |-> {}, atlock |-> 0]

NewMachine(tune) ==
    [db |-> NewDB(tune), core |-> NewCore, disk |-> NoDisk, lk |-> NoLocks,
     steps |-> <<>>, ok |-> TRUE, err |-> "SUCCESS"]

\* a lock_writer that returns while other threads hold the lock
CanLockWriter_shared(held) == TRUE

\* SpinRWLock::lock_writer, lock_reader return when these hold
CanLockWriter(held) == held = {}
CanLockReader(held) == \A h \in held : h[2] # "w"
\* a promote that succeeds beside other holders of the lock
CanPromote_any(held, t) == TRUE

\* SpinRWLock::promote succeeds for the only holder of the lock
CanPromote(held, t) == held = {<<t, "r">>}

SlotHolders(lks, lidx) == {<<h[2], h[3]>> : h \in {x \in lks.rlock : x[1] = lidx}}

(***************************************************************************)
(* HashDB::accept with accept_impl, as the steps of the calling thread.    *)
(* The context cx of a call holds its arguments, its position pc and its   *)
(* local variables (path names the branch accept_impl took).  The         *)
(* visitors are those of FileDB::set, add, remove and get (kcdb.h).        *)
(***************************************************************************)
NewCall(op, kbuf, vbuf) ==
    [pc |-> "begin", op |-> op, kbuf |-> kbuf, vbuf |-> vbuf, bidx |-> 0, pivot |-> 0,
     lidx |-> 0, entoff |-> 0, rec |-> NoRecord(0, "SUCCESS"), rsiz |-> 0,
     over |-> FALSE, isins |-> FALSE, vok |-> FALSE, out |-> <<>>, path |-> "none",
     atran |-> FALSE, next |-> "none", isiter |-> FALSE, ok |-> TRUE, err |-> "SUCCESS"]

Idle == [NewCall("none", <<>>, <<>>) EXCEPT !.pc = "done"]

\* the writable argument the callers of accept pass
Writable(op) == op \in {"set", "add", "remove"}

\* a visitor of add that replaces the value of a record it finds
visit_full_replace(op) ==
    CASE op \in {"set", "add"} -> "VALUE"
      [] op = "remove" -> "REMOVE"
      [] OTHER -> "NOP"

\* Visitor::visit_full of the caller's visitor: "NOP", "REMOVE" or "VALUE"
visit_full(op) ==
    CASE op \in {"set", "repeat"} -> "VALUE"
      [] op \in {"remove", "repeat_remove"} -> "REMOVE"
      [] OTHER -> "NOP"

\* Visitor::visit_empty of the caller's visitor
visit_empty(op) == IF op \in {"set", "add"} THEN "VALUE" ELSE "NOP"

\* a mutex that anyone can take at any time
CanLockMutex_free(held) == TRUE

\* Mutex::lock returns when this holds
CanLockMutex(held) == held = 0

\* HashDB::begin_auto_transaction, atlock_ being held: the File transaction
\* of one mutation, with the count and the size of the header logged
begin_auto_transaction(M) ==
    LET Begun(M1) ==
            Invoke("File_write_transaction", <<M1, HDBMOFFCOUNT, HDBMOFFOPAQUE - HDBMOFFCOUNT>>)
    IN Begun(Invoke("File_begin_transaction", <<M, M.db.autosync_, M.db.boff_>>))

\* HashDB::commit_auto_transaction
commit_auto_transaction(M) ==
    [Invoke("File_end_transaction", <<Invoke("dump_auto_meta", <<M>>), TRUE>>)
        EXCEPT !.lk.atlock = 0]

\* an abort_auto_transaction that keeps atlock_
abort_auto_transaction_held(M) == Invoke("File_end_transaction", <<M, FALSE>>)

\* HashDB::abort_auto_transaction
abort_auto_transaction(M) ==
    LET Ended(E) ==
            LET Loaded(M3) ==
                    [disable_cursors(calc_meta(M3)) EXCEPT !.db.fbp_ = {}, !.lk.atlock = 0,
                                                           !.ok = E.ok /\ M3.ok]
            IN Loaded(Invoke("load_meta", <<IF E.ok THEN E ELSE set_error(E, "SYSTEM")>>))
    IN Ended(Invoke("File_end_transaction", <<M, FALSE>>))

\* what a step hands back: the error of a failed call moves to the thread,
\* after abort_auto_transaction where the mutation has a transaction of its own
Ret(M, cx, pc) ==
    IF M.ok THEN [m |-> M, c |-> [cx EXCEPT !.pc = pc]]
    ELSE [m |-> [(IF cx.atran THEN Invoke("abort_auto_transaction", <<M>>) ELSE M)
                    EXCEPT !.ok = TRUE, !.err = "SUCCESS"],
          c |-> [cx EXCEPT !.pc = "unlock", !.atran = FALSE, !.ok = FALSE, !.err = M.err]]

\* the mutation of accept_impl begins at pc: with begin_auto_transaction
\* first when the database is in the auto transaction mode and no
\* transaction is open
Mutation(M, cx, pc) ==
    IF M.db.autotran_ /\ ~M.db.tran_ THEN Ret(M, [cx EXCEPT !.next = pc], "at_lock")
    ELSE Ret(M, cx, pc)

\* the mutation ends: with commit_auto_transaction where it began one
Committing(cx) == IF cx.atran THEN "at_commit" ELSE "unlock"

\* whether the thread t can take its next step
AcceptEnabled(M, cx, t) ==
    CASE cx.pc = "begin" -> CanLockReader(M.lk.mlock)
      [] cx.pc = "rlock" ->
            IF Writable(cx.op) THEN CanLockWriter(SlotHolders(M.lk, cx.lidx))
            ELSE CanLockReader(SlotHolders(M.lk, cx.lidx))
      [] cx.pc = "at_lock" -> CanLockMutex(M.lk.atlock)
      [] cx.pc = "done" -> FALSE
      [] OTHER -> TRUE

\* the decision of accept_impl once the chain has been walked
AfterSearch(M, cx, s) ==
    IF ~s.ok THEN Ret(set_error(M, IF s.err = "HANG" THEN "BROKEN" ELSE s.err), cx, "unlock")
    ELSE IF s.found
    THEN LET v == visit_full(cx.op)
             rsiz == calc_record_size(M, s.rec.ksiz, Len(cx.vbuf))
         IN IF v = "REMOVE"
            THEN Mutation(M, [cx EXCEPT !.rec = s.rec, !.entoff = s.entoff, !.vok = TRUE,
                                 !.path = "remove"], "rm_wfb")
            ELSE IF v = "NOP"
            THEN Ret(M, [cx EXCEPT !.out = s.rec.vbuf, !.vok = (cx.op = "get")], "unlock")
            ELSE IF rsiz <= s.rec.rsiz
            THEN Mutation(M, [cx EXCEPT !.entoff = s.entoff, !.rsiz = rsiz, !.path = "inplace",
                                 !.rec = [s.rec EXCEPT !.psiz = s.rec.rsiz - rsiz,
                                                       !.vsiz = Len(cx.vbuf),
                                                       !.vbuf = cx.vbuf]], "ow_adj")
            ELSE Mutation(M, [cx EXCEPT !.rec = s.rec, !.entoff = s.entoff, !.rsiz = rsiz,
                                 !.path = "relocate"], "rl_wfb")
    ELSE IF visit_empty(cx.op) = "VALUE"
    THEN LET rsiz == calc_record_size(M, Len(cx.kbuf), Len(cx.vbuf))
             psiz == calc_record_padding(M, rsiz)
         IN Mutation(M, [cx EXCEPT !.entoff = s.entoff, !.rsiz = rsiz, !.isins = TRUE,
                            !.vok = TRUE, !.path = "insert",
                            !.rec = [NoRecord(0, "SUCCESS") EXCEPT
                                        !.ok = TRUE, !.rsiz = rsiz + psiz, !.psiz = psiz,
                                        !.ksiz = Len(cx.kbuf), !.vsiz = Len(cx.vbuf),
                                        !.kbuf = cx.kbuf, !.vbuf = cx.vbuf]], "alloc")
    ELSE Ret(M, cx, "unlock")

\* the end of accept: the automatic defragmentation, run when the thread
\* can promote its lock on mlock_, and the release of mlock_
AcceptPost(M, cx, t) ==
    LET d == M.db
        run == cx.ok /\ d.dfunit_ > 0 /\ d.frgcnt_ >= d.dfunit_
                  /\ CanPromote(M.lk.mlock, t)
        unit == Min(d.frgcnt_, HDBDFRGMAX)
        Unlocked(M1, M2) ==
            IF M1.ok THEN [m |-> M2, c |-> [cx EXCEPT !.pc = "result"]]
            ELSE [m |-> [M2 EXCEPT !.ok = TRUE, !.err = "SUCCESS"],
                  c |-> [cx EXCEPT !.pc = "result", !.ok = FALSE, !.err = M1.err]]
        Defragged(M1) == Unlocked(M1, [M1 EXCEPT !.lk.mlock = @ \ {<<t, "r">>}])
    IN Defragged(IF run
                 THEN [Invoke("defrag_impl", <<M, unit * HDBDFRGCEF>>) EXCEPT !.db.frgcnt_ = @ - unit]
                 ELSE M)

\* the end of FileDB::set, add, remove and get (kcdb.h) after accept
CallResult(M, cx) ==
    LET c == [cx EXCEPT !.pc = "done"]
    IN IF ~cx.ok THEN [m |-> M, c |-> c]
       ELSE IF cx.op = "add" /\ ~cx.vok
       THEN [m |-> M, c |-> [c EXCEPT !.ok = FALSE, !.err = "DUPREC"]]
       ELSE IF cx.op \in {"remove", "get"} /\ ~cx.vok
       THEN [m |-> M, c |-> [c EXCEPT !.ok = FALSE, !.err = "NOREC"]]
       ELSE [m |-> M, c |-> c]

\* the allocation of a caller that takes a block of the pool for the
\* record it relocates during an iteration too
AcceptAlloc_reuse(M, cx) ==
    LET Fetched(f) ==
            IF f.ok
            THEN Ret(f.m, [cx EXCEPT !.over = TRUE,
                              !.rec = [cx.rec EXCEPT !.off = f.fb.off, !.rsiz = f.fb.rsiz,
                                                     !.psiz = f.fb.rsiz - cx.rsiz]], "al_adj")
            ELSE Ret([M EXCEPT !.db.lsiz_ = @ + cx.rec.rsiz],
                     [cx EXCEPT !.over = FALSE, !.rec = [cx.rec EXCEPT !.off = M.db.lsiz_]],
                     "write")
    IN Fetched(Invoke("fetch_free_block", <<M, cx.rec.rsiz>>))

\* an allocation at the end of the file that leaves the end where it is
AcceptAlloc_fixed(M, cx) ==
    Ret(M, [cx EXCEPT !.over = FALSE, !.rec = [cx.rec EXCEPT !.off = M.db.lsiz_]], "write")

\* the allocation of accept_impl for a record of cx.rec.rsiz bytes: a block
\* of the pool, else the end of the file; the record an iteration relocates
\* always goes to the end of the file
AcceptAlloc(M, cx) ==
    LET NoBlock == [ok |-> FALSE, m |-> M, fb |-> [off |-> 0, rsiz |-> 0]]
        Fetched(f) ==
            IF f.ok
            THEN Ret(f.m, [cx EXCEPT !.over = TRUE,
                              !.rec = [cx.rec EXCEPT !.off = f.fb.off, !.rsiz = f.fb.rsiz,
                                                     !.psiz = f.fb.rsiz - cx.rsiz]], "al_adj")
            ELSE Ret([M EXCEPT !.db.lsiz_ = @ + cx.rec.rsiz],
                     [cx EXCEPT !.over = FALSE, !.rec = [cx.rec EXCEPT !.off = M.db.lsiz_]],
                     "write")
    IN IF cx.isiter /\ ~cx.isins THEN Fetched(NoBlock)
       ELSE Fetched(Invoke("fetch_free_block", <<M, cx.rec.rsiz>>))

\* one step of the thread t in HashDB::accept
AcceptStep(M, cx, t) ==
    LET Adjusted(a, pc) == Ret(a.m, [cx EXCEPT !.rec = a.rec], pc)
        Posted(p) == CallResult(p.m, p.c)
    IN
    CASE cx.pc = "begin" ->
            LET M1 == [M EXCEPT !.lk.mlock = @ \cup {<<t, "r">>}]
                hash == hash_record(cx.kbuf)
                bidx == HashMod(hash, M.db.bnum_)
            IN IF M.db.omode = {}
               THEN [m |-> M1, c |-> [cx EXCEPT !.pc = "post", !.ok = FALSE, !.err = "INVALID"]]
               ELSE IF Writable(cx.op) /\ ~M.db.writer_
               THEN [m |-> M1, c |-> [cx EXCEPT !.pc = "post", !.ok = FALSE, !.err = "NOPERM"]]
               ELSE [m |-> M1, c |-> [cx EXCEPT !.pc = "rlock", !.bidx = bidx,
                                         !.pivot = fold_hash(hash),
                                         !.lidx = bidx % HDBRLOCKSLOT]]
      [] cx.pc = "rlock" ->
            [m |-> [M EXCEPT !.lk.rlock = @ \cup
                       {<<cx.lidx, t, IF Writable(cx.op) THEN "w" ELSE "r">>}],
             c |-> [cx EXCEPT !.pc = "search"]]
      [] cx.pc = "search" ->
            AfterSearch(M, cx, ChainSearch(M, cx.kbuf, cx.pivot, Invoke("get_bucket", <<M, cx.bidx>>), 0,
                                           ChainFuel(M)))
      [] cx.pc = "rm_wfb" -> Ret(Invoke("write_free_block", <<M, cx.rec.off, cx.rec.rsiz>>), cx, "rm_ifb")
      [] cx.pc = "rm_ifb" ->
            Ret([Invoke("insert_free_block", <<M, cx.rec.off, cx.rec.rsiz>>) EXCEPT !.db.frgcnt_ = @ + 1],
                cx, "rm_cut")
      [] cx.pc = "rm_cut" -> Ret(Invoke("cut_chain", <<M, cx.rec, cx.bidx, cx.entoff>>), cx, "rm_cnt")
      [] cx.pc = "rm_cnt" -> Ret([M EXCEPT !.db.count_ = @ - 1], cx, Committing(cx))
      [] cx.pc = "at_lock" ->
            [m |-> [M EXCEPT !.lk.atlock = t], c |-> [cx EXCEPT !.pc = "at_begin"]]
      [] cx.pc = "at_begin" ->
            LET Begun(B) == Ret(B, [cx EXCEPT !.atran = B.ok], cx.next)
            IN Begun(Invoke("begin_auto_transaction", <<M>>))
      [] cx.pc = "at_commit" ->
            Ret(Invoke("commit_auto_transaction", <<M>>), [cx EXCEPT !.atran = FALSE], "unlock")
      [] cx.pc = "ow_adj" ->
            Adjusted(Invoke("adjust_record", <<M, cx.rec>>), "ow_wr")
      [] cx.pc = "ow_wr" -> Ret(Invoke("write_record", <<M, cx.rec, TRUE>>), cx, Committing(cx))
      [] cx.pc = "rl_wfb" -> Ret(Invoke("write_free_block", <<M, cx.rec.off, cx.rec.rsiz>>), cx, "rl_ifb")
      [] cx.pc = "rl_ifb" ->
            LET psiz == calc_record_padding(M, cx.rsiz)
            IN Ret([Invoke("insert_free_block", <<M, cx.rec.off, cx.rec.rsiz>>) EXCEPT !.db.frgcnt_ = @ + 1],
                   [cx EXCEPT !.rec = [cx.rec EXCEPT !.rsiz = cx.rsiz + psiz, !.psiz = psiz,
                                                     !.vsiz = Len(cx.vbuf),
                                                     !.vbuf = cx.vbuf]], "alloc")
      [] cx.pc = "alloc" -> AcceptAlloc(M, cx)
      [] cx.pc = "al_adj" ->
            Adjusted(Invoke("adjust_record", <<M, cx.rec>>), "write")
      [] cx.pc = "write" ->
            Ret(Invoke("write_record", <<M, cx.rec, cx.over>>), cx, IF cx.over THEN "link" ELSE "psiz")
      [] cx.pc = "psiz" ->
            Ret([M EXCEPT !.db.psiz_ = Max(@, cx.rec.off + cx.rec.rsiz)], cx, "link")
      [] cx.pc = "link" ->
            Ret(LinkEntry(M, cx.bidx, cx.entoff, cx.rec.off), cx,
                IF cx.isins THEN "cnt" ELSE Committing(cx))
      [] cx.pc = "cnt" -> Ret([M EXCEPT !.db.count_ = @ + 1], cx, Committing(cx))
      [] cx.pc = "unlock" ->
            [m |-> [M EXCEPT !.lk.rlock = {h \in @ : ~(h[1] = cx.lidx /\ h[2] = t)}],
             c |-> [cx EXCEPT !.pc = "post"]]
      [] cx.pc = "post" -> Posted(AcceptPost(M, cx, t))

\* a whole call by a thread that runs alone
RECURSIVE RunCall(_, _, _)
RunCall(M, cx, t) ==
    IF cx.pc = "done" THEN [m |-> M, c |-> cx]
    ELSE LET Stepped(r) == RunCall(r.m, r.c, t) IN Stepped(AcceptStep(M, cx, t))

Call(M, op, kbuf, vbuf) == RunCall(M, NewCall(op, kbuf, vbuf), 1)

(***************************************************************************)
(* Opening and closing.                                                    *)
(***************************************************************************)
\* the blocks of a pool in the order of FreeBlockComparator (by offset)
RECURSIVE SortByOff(_)
SortByOff(fbp) ==
    IF fbp = {} THEN <<>>
    ELSE LET a == CHOOSE x \in fbp : \A y \in fbp : x.off <= y.off
         IN <<a>> \o SortByOff(fbp \ {a})

\* the loop of dump_free_blocks: offsets as differences, sizes, in units of
\* the alignment, while the region has room
RECURSIVE DumpBlocks(_, _, _, _, _, _)
DumpBlocks(blocks, i, prev, align, room, acc) ==
    IF i > Len(blocks) \/ Len(acc) >= room THEN acc
    ELSE DumpBlocks(blocks, i + 1, blocks[i].off, align, room,
                    acc \o writevarnum((blocks[i].off - prev) \div align)
                        \o writevarnum(blocks[i].rsiz \div align))

\* HashDB::dump_free_blocks
dump_free_blocks(M) ==
    LET d == M.db
        room == (d.boff_ - HDBHEADSIZ) - d.width_ * 2 - 2
        body == DumpBlocks(SortByOff(d.fbp_), 1, 0, d.align_, room, <<>>)
    IN IF d.fbpnum_ < 1 THEN Succeed(M)
       ELSE Invoke("File_write", <<M, HDBHEADSIZ, body \o <<0, 0>>>>)

\* HashDB::dump_empty_free_blocks
dump_empty_free_blocks(M) ==
    IF M.db.fbpnum_ < 1 THEN Succeed(M) ELSE Invoke("File_write", <<M, HDBHEADSIZ, <<0, 0>>>>)

\* the loop of load_free_blocks over the region: [ok, fbp]
RECURSIVE LoadBlocks(_, _, _, _, _, _)
LoadBlocks(buf, num, fbpnum, prev, align, acc) ==
    LET Block(rest, r, off) ==
            IF r.step < 1 \/ r.num < 1 THEN [ok |-> FALSE, fbp |-> acc]
            ELSE LoadBlocks(SubSeq(rest, r.step + 1, Len(rest)), num + 1, fbpnum, off, align,
                            acc \cup {[off |-> off, rsiz |-> ShiftLeft(r.num, align)]})
        Size(o, rest) == Block(rest, readvarnum(rest), prev + ShiftLeft(o.num, align))
        Offset(o) ==
            IF o.step < 1 \/ o.num < 1 THEN [ok |-> FALSE, fbp |-> acc]
            ELSE Size(o, SubSeq(buf, o.step + 1, Len(buf)))
    IN IF ~(num < fbpnum /\ Len(buf) > 1 /\ buf[1] # 0) THEN [ok |-> TRUE, fbp |-> acc]
       ELSE Offset(readvarnum(buf))

\* HashDB::load_free_blocks
load_free_blocks(M) ==
    LET d == M.db
        Loaded(ld) ==
            IF ~ld.ok THEN set_error(M, "BROKEN")
            ELSE Succeed([M EXCEPT !.db.fbp_ = @ \cup ld.fbp])
        Region(rd) ==
            IF ~rd.ok THEN set_error(M, "SYSTEM")
            ELSE Loaded(LoadBlocks(rd.buf, 0, d.fbpnum_, 0, d.align_, {}))
    IN IF d.fbpnum_ < 1 THEN Succeed(M)
       ELSE Region(Invoke("File_read", <<M, HDBHEADSIZ, d.boff_ - HDBHEADSIZ>>))

\* HashDB::trim_file, for the writer that trims its own file
trim_file(M) == [Invoke("File_truncate", <<M, M.db.lsiz_>>) EXCEPT !.db.trim_ = TRUE]

\* HashDB::copy_records: set every record found from off on into the
\* database T; the scan ends at the first region it cannot read
RECURSIVE copy_records(_, _, _)
copy_records(M, T, off) ==
    LET Copied(r, next) ==
            IF ~r.c.ok THEN [t |-> r.m, err |-> "SUCCESS"] ELSE copy_records(M, r.m, next)
        Visit(rec) ==
            IF ~rec.ok THEN [t |-> T, err |-> rec.err]
            ELSE IF rec.psiz = UINT16_MAX THEN copy_records(M, T, off + rec.rsiz)
            ELSE Copied(Invoke("Call", <<T, "set", rec.kbuf, rec.vbuf>>), off + rec.rsiz)
    IN IF ~(off > 0 /\ off < M.db.psiz_) THEN [t |-> T, err |-> "SUCCESS"]
       ELSE Visit(Invoke("read_record", <<M, off>>))

\* HashDB::close: every step is made whatever the earlier ones gave, and the
\* call fails when one of them has failed
close(M) ==
    LET Closed(M4, err) ==
            [(IF M4.ok THEN M4 ELSE set_error(M4, "SYSTEM"))
                EXCEPT !.db.fbp_ = {}, !.db.omode = {}, !.ok = ~err /\ M4.ok]
        Filed(M3, err) == Closed(Invoke("File_close", <<[M3 EXCEPT !.ok = TRUE]>>), err \/ ~M3.ok)
        Dumped(M2, err) == Filed(Invoke("dump_meta", <<[M2 EXCEPT !.ok = TRUE]>>), err \/ ~M2.ok)
        Disabled(M1, err) ==
            IF M1.db.writer_ THEN Dumped(Invoke("dump_free_blocks", <<[M1 EXCEPT !.ok = TRUE]>>), err)
            ELSE Filed(M1, err)
        Aborted(M0) == Disabled(disable_cursors(M0), ~M0.ok)
    IN IF M.db.omode = {} THEN set_error(M, "INVALID")
       ELSE IF M.db.tran_ THEN Aborted(Invoke("abort_transaction", <<M>>))
       ELSE Disabled(disable_cursors(M), FALSE)

\* what open does when it gives up: the file is closed again
OpenFailed(M) == [Invoke("File_close", <<M>>) EXCEPT !.ok = FALSE, !.err = M.err]

\* HashDB::open; mode is the set of the open mode flags
open(M, mode) ==
    LET wr == "OWRITER" \in mode
        norepair == "ONOREPAIR" \in mode \/ "ONOLOCK" \in mode
        M0 == [M EXCEPT !.steps = <<>>, !.err = "SUCCESS",
                        !.db.writer_ = wr,
                        !.db.autotran_ = wr /\ "OAUTOTRAN" \in mode,
                        !.db.autosync_ = wr /\ "OAUTOSYNC" \in mode,
                        !.db.reorg_ = FALSE, !.db.trim_ = FALSE]
        fmode == (IF wr THEN {"OWRITER"} \cup (mode \cap {"OCREATE", "OTRUNCATE"})
                  ELSE {"OREADER"}) \cup (mode \cap {"ONOLOCK", "OTRYLOCK"})
        Flagged(M8) ==
            Succeed([(IF ~M8.db.autotran_ THEN Invoke("set_flag", <<M8, FOPEN, TRUE>>) ELSE M8)
                        EXCEPT !.db.omode = mode])
        Pooled(M7) == IF ~M7.ok THEN OpenFailed(M7) ELSE Flagged(Invoke("dump_empty_free_blocks", <<M7>>))
        Trimmed(M6) ==
            IF ~wr THEN Succeed([M6 EXCEPT !.db.omode = mode])
            ELSE Pooled(IF ~HasFlag(M6.db.flags_, FOPEN) /\ ~HasFlag(M6.db.flags_, FFATAL)
                        THEN Invoke("load_free_blocks", <<M6>>) ELSE M6)
        Repaired(M5) ==
            IF ~M5.ok THEN OpenFailed(M5)
            ELSE IF M5.db.type_ = 0 \/ M5.db.apow_ > HDBMAXAPOW \/ M5.db.fpow_ > HDBMAXFPOW
                      \/ M5.db.bnum_ < 1 \/ M5.db.count_ < 0 \/ M5.db.lsiz_ < M5.db.roff_
            THEN OpenFailed(set_error(M5, "BROKEN"))
            ELSE IF File_size(M5) < M5.db.lsiz_ THEN OpenFailed(set_error(M5, "BROKEN"))
            ELSE Trimmed(IF File_size(M5) # M5.db.lsiz_ /\ ~norepair THEN Invoke("trim_file", <<M5>>)
                         ELSE M5)
        Checked(M4) ==
            IF calc_checksum # M4.db.chksum_ THEN OpenFailed(set_error(M4, "INVALID"))
            ELSE Repaired(IF (HasFlag(M4.db.flags_, FOPEN) \/ HasFlag(M4.db.flags_, FFATAL))
                               /\ ~norepair
                          THEN Invoke("reorganize_file", <<M4>>) ELSE M4)
        Loaded(M3) == IF ~M3.ok THEN OpenFailed(M3) ELSE Checked(calc_meta(M3))
        Created(C) ==
            Invoke("dump_meta", <<Invoke("File_truncate", <<[C EXCEPT !.db.chksum_ = calc_checksum,
                                              !.db.lsiz_ = C.db.roff_], C.db.roff_>>)>>)
        Opened(M1) ==
            Loaded(Invoke("load_meta", <<IF wr /\ File_size(M1) < 1 THEN Created(calc_meta(M1)) ELSE M1>>))
    IN IF M.db.omode # {} THEN set_error(M, "INVALID")
       ELSE Opened(Invoke("File_open", <<M0, fmode, M0.db.msiz_>>))

\* HashDB::reorganize_file: rebuild the file from the records that can
\* still be read, through a temporary database; copy_records gives the
\* temporary database and the error that read_record has recorded in this
\* one when the copy stopped at a block it could not read
reorganize_file(M) ==
    LET d == M.db
        T0 == NewMachine([apow |-> d.apow_, fpow |-> d.fpow_, opts |-> d.opts_,
                          bnum |-> d.bnum_, msiz |-> d.msiz_, dfunit |-> 0])
        M1 == [M EXCEPT !.db.lsiz_ = File_size(M), !.db.psiz_ = File_size(M)]
        Loaded(M3) ==
            IF ~M3.ok THEN [calc_meta(M3) EXCEPT !.db.reorg_ = TRUE, !.ok = FALSE]
            ELSE [calc_meta(M3) EXCEPT !.db.reorg_ = TRUE]
        Moved(T2, size, M2) ==
            IF ~T2.ok THEN set_error(M2, T2.err)
            ELSE Loaded(Invoke("load_meta", <<Invoke("File_truncate", <<Invoke("File_write", <<M2, 0, GetBytes(T2.disk, 0, size)>>),
                                                size>>)>>))
        Closed(T2, M2) == Moved(T2, T2.disk.fsize, M2)
        Copied(c) ==
            Closed(Invoke("close", <<c.t>>),
                   IF c.err = "SUCCESS" THEN M1 ELSE set_error(M1, c.err))
        Opened(T1) ==
            IF ~T1.ok THEN set_error(M, T1.err)
            ELSE Copied(copy_records(M1, T1, M1.db.roff_))
    IN Opened(Invoke("open", <<T0, {"OWRITER", "OCREATE", "OTRUNCATE"}>>))

(***************************************************************************)
(* The operations that hold mlock_ as a writer from start to end.          *)
(***************************************************************************)
\* a begin_transaction_try that does not look at tran_
begin_transaction_try_nocheck(M, hard) ==
    LET Begun(M1) == IF ~M1.ok THEN M1 ELSE [M1 EXCEPT !.db.tran_ = TRUE]
    IN IF M.db.omode = {} THEN set_error(M, "INVALID")
       ELSE IF ~M.db.writer_ THEN set_error(M, "NOPERM")
       ELSE Begun(Invoke("begin_transaction_impl", <<[M EXCEPT !.db.trhard_ = hard]>>))

\* HashDB::begin_transaction once it has found no transaction open, and
\* begin_transaction_try, which gives up when it finds one
begin_transaction_try(M, hard) ==
    LET Begun(M1) == IF ~M1.ok THEN M1 ELSE [M1 EXCEPT !.db.tran_ = TRUE]
    IN IF M.db.omode = {} THEN set_error(M, "INVALID")
       ELSE IF ~M.db.writer_ THEN set_error(M, "NOPERM")
       ELSE IF M.db.tran_ THEN set_error(M, "LOGIC")
       ELSE Begun(Invoke("begin_transaction_impl", <<[M EXCEPT !.db.trhard_ = hard]>>))

\* an end_transaction that does not look at tran_
end_transaction_unchecked(M, commit) ==
    IF M.db.omode = {} THEN set_error(M, "INVALID")
    ELSE [(IF commit THEN Invoke("commit_transaction", <<M>>) ELSE Invoke("abort_transaction", <<M>>))
             EXCEPT !.db.tran_ = FALSE]

\* HashDB::end_transaction
end_transaction(M, commit) ==
    IF M.db.omode = {} THEN set_error(M, "INVALID")
    ELSE IF ~M.db.tran_ THEN set_error(M, "INVALID")
    ELSE [(IF commit THEN Invoke("commit_transaction", <<M>>) ELSE Invoke("abort_transaction", <<M>>))
             EXCEPT !.db.tran_ = FALSE]

\* a defrag whose whole pass stops after HDBDFRGCEF records
defrag_bounded(M, step) ==
    IF M.db.omode = {} THEN set_error(M, "INVALID")
    ELSE IF ~M.db.writer_ THEN set_error(M, "NOPERM")
    ELSE [Invoke("defrag_impl", <<IF step > 0 THEN M ELSE [M EXCEPT !.db.dfcur_ = M.db.roff_],
                      IF step > 0 THEN step ELSE HDBDFRGCEF>>)
             EXCEPT !.db.frgcnt_ = 0]

\* HashDB::defrag: step records, or with step 0 the whole file
defrag(M, step) ==
    IF M.db.omode = {} THEN set_error(M, "INVALID")
    ELSE IF ~M.db.writer_ THEN set_error(M, "NOPERM")
    ELSE [Invoke("defrag_impl", <<IF step > 0 THEN M ELSE [M EXCEPT !.db.dfcur_ = M.db.roff_],
                      IF step > 0 THEN step ELSE INT64_MAX>>)
             EXCEPT !.db.frgcnt_ = 0]

\* HashDB::accept_impl as iterate_impl calls it, with a Repeater for the
\* visitor and no lock of its own: from the walk of the chain to the end
RECURSIVE RunImpl(_, _)
RunImpl(M, cx) ==
    IF cx.pc = "unlock" THEN [m |-> M, c |-> cx]
    ELSE LET Stepped(r) == RunImpl(r.m, r.c) IN Stepped(Invoke("AcceptStep", <<M, cx, 1>>))

accept_impl(M, op, kbuf, vbuf, isiter) ==
    LET hash == hash_record(kbuf)
        Ended(r) == IF r.c.ok THEN r.m ELSE set_error(r.m, r.c.err)
    IN Ended(RunImpl(M, [NewCall(op, kbuf, vbuf) EXCEPT
                            !.pc = "search", !.isiter = isiter,
                            !.bidx = HashMod(hash, M.db.bnum_), !.pivot = fold_hash(hash)]))

\* HashDB::iterate_impl from the offset off to the end of the record area as
\* it was when the pass began; vis gives for each key what visit_full
\* returns (act is "NOP", "REMOVE" or "VALUE", vbuf the new value), visits
\* are the keys visited
RECURSIVE IterFrom(_, _, _, _, _)
IterFrom(M, vis, off, end, visits) ==
    IF ~(off > 0 /\ off < end) THEN [m |-> Succeed(M), visits |-> visits]
    ELSE LET rec == Invoke("read_record", <<M, off>>)
             seen == Append(visits, rec.kbuf)
             Onward(M1, noff) ==
                 IF M1.ok THEN IterFrom(M1, vis, noff, end, seen)
                 ELSE [m |-> M1, visits |-> seen]
         IN IF ~rec.ok THEN [m |-> set_error(M, rec.err), visits |-> visits]
            ELSE IF rec.psiz = UINT16_MAX THEN IterFrom(M, vis, off + rec.rsiz, end, visits)
            ELSE IF vis[rec.kbuf].act = "REMOVE"
            THEN Onward(Invoke("accept_impl", <<M, "repeat_remove", rec.kbuf, <<>>, TRUE>>),
                      off + rec.rsiz)
            ELSE IF vis[rec.kbuf].act = "NOP" THEN Onward(M, off + rec.rsiz)
            ELSE LET vbuf == vis[rec.kbuf].vbuf
                     rsiz == calc_record_size(M, rec.ksiz, Len(vbuf))
                     Adjusted(a) ==
                         IF a.m.ok
                         THEN Onward(Invoke("write_record", <<a.m, a.rec, TRUE>>),
                                   off + a.rec.rsiz)
                         ELSE [m |-> a.m, visits |-> seen]
                 IN IF rsiz <= rec.rsiz
                    THEN Adjusted(Invoke("adjust_record",
                                         <<M, [rec EXCEPT !.psiz = rec.rsiz - rsiz,
                                                          !.vsiz = Len(vbuf),
                                                          !.vbuf = vbuf]>>))
                    ELSE Onward(Invoke("accept_impl", <<M, "repeat", rec.kbuf, vbuf, TRUE>>),
                              off + rec.rsiz)

iterate_impl(M, vis) == IterFrom(M, vis, M.db.roff_, M.db.lsiz_, <<>>)

\* HashDB::iterate, mlock_ being held for writing from its start to its end
iterate(M, vis, writable) ==
    IF M.db.omode = {} THEN [m |-> set_error(M, "INVALID"), visits |-> <<>>]
    ELSE IF writable /\ ~M.db.writer_ THEN [m |-> set_error(M, "NOPERM"), visits |-> <<>>]
    ELSE Invoke("iterate_impl", <<M, vis>>)

\* HashDB::clear
clear(M) ==
    LET Flagged(M4) == Succeed(Invoke("set_flag", <<M4, FOPEN, TRUE>>))
        Dumped(M3) == Flagged(Invoke("dump_meta", <<M3>>))
        Reset(M2) ==
            IF ~M2.ok THEN set_error(M2, "SYSTEM")
            ELSE Dumped(Invoke("File_truncate",
                               <<[M2 EXCEPT !.db.fbp_ = {}, !.db.flags_ = 0,
                                            !.db.flagopen_ = FALSE, !.db.count_ = 0,
                                            !.db.lsiz_ = M2.db.roff_, !.db.psiz_ = M2.db.roff_,
                                            !.db.dfcur_ = M2.db.roff_], M2.db.roff_>>))
    IN IF M.db.omode = {} THEN set_error(M, "INVALID")
       ELSE IF ~M.db.writer_ THEN set_error(M, "NOPERM")
       ELSE Reset(Invoke("File_truncate", <<disable_cursors(M), HDBHEADSIZ>>))

(***************************************************************************)
(* HashDB::Cursor: the cursor i of curs_ is the offset of its record and   *)
(* the end of its range.                                                   *)
(***************************************************************************)
\* Cursor::Cursor
Cursor(M) == [M EXCEPT !.db.curs_ = Append(@, [off |-> 0, end |-> 0])]

\* a jump() that does not keep the end of the file for the end of the walk
Cursor_jump_unbounded(M, i) ==
    IF M.db.omode = {} THEN set_error(M, "INVALID")
    ELSE IF M.db.lsiz_ <= M.db.roff_
    THEN set_error([M EXCEPT !.db.curs_[i].off = 0], "NOREC")
    ELSE Succeed([M EXCEPT !.db.curs_[i] = [off |-> M.db.roff_, end |-> INT64_MAX]])

\* Cursor::jump()
Cursor_jump(M, i) ==
    IF M.db.omode = {} THEN set_error(M, "INVALID")
    ELSE IF M.db.lsiz_ <= M.db.roff_
    THEN set_error([M EXCEPT !.db.curs_[i].off = 0], "NOREC")
    ELSE Succeed([M EXCEPT !.db.curs_[i] = [off |-> M.db.roff_, end |-> M.db.lsiz_]])

\* Cursor::jump(kbuf, ksiz)
Cursor_jump_key(M, i, kbuf) ==
    LET hash == hash_record(kbuf)
        M0 == [M EXCEPT !.db.curs_[i].off = 0]
        Found(s) ==
            IF ~s.ok THEN set_error(M0, IF s.err = "HANG" THEN "BROKEN" ELSE s.err)
            ELSE IF ~s.found THEN set_error(M0, "NOREC")
            ELSE Succeed([M EXCEPT !.db.curs_[i] = [off |-> s.rec.off, end |-> M.db.lsiz_]])
    IN IF M.db.omode = {} THEN set_error(M, "INVALID")
       ELSE Found(ChainSearch(M, kbuf, fold_hash(hash),
                              Invoke("get_bucket", <<M, HashMod(hash, M.db.bnum_)>>), 0,
                              ChainFuel(M)))

\* Cursor::step_impl: [m, rec]; the cursor stops at the first record after
\* skip records, past the free blocks, or is exhausted at the end
RECURSIVE StepFrom(_, _, _)
StepFrom(M, i, skip) ==
    LET cur == M.db.curs_[i]
        Visit(rec) ==
            IF ~rec.ok THEN [m |-> set_error(M, rec.err), rec |-> rec]
            ELSE IF rec.psiz # UINT16_MAX /\ skip - 1 < 0 THEN [m |-> Succeed(M), rec |-> rec]
            ELSE StepFrom([M EXCEPT !.db.curs_[i].off = @ + rec.rsiz], i, skip - 1)
    IN IF cur.off >= cur.end
       THEN [m |-> set_error([M EXCEPT !.db.curs_[i].off = 0], "NOREC"),
             rec |-> NoRecord(0, "NOREC")]
       ELSE Visit(Invoke("read_record", <<M, cur.off>>))

step_impl(M, i, skip) ==
    IF M.db.curs_[i].off >= M.db.curs_[i].end
    THEN [m |-> set_error(M, "BROKEN"), rec |-> NoRecord(0, "BROKEN")]
    ELSE StepFrom(M, i, skip)

\* Cursor::step
Cursor_step(M, i) ==
    IF M.db.omode = {} THEN set_error(M, "INVALID")
    ELSE IF M.db.curs_[i].off < 1 THEN set_error(M, "NOREC")
    ELSE step_impl(M, i, 1).m

\* Cursor::accept with a visitor whose visit_full answers dec
Cursor_accept(M, i, dec, writable, step) ==
    LET Defragged(M5) ==
            IF ~M5.ok THEN M5
            ELSE IF M5.db.dfunit_ > 0 /\ M5.db.frgcnt_ >= M5.db.dfunit_
            THEN LET Passed(M6) ==
                         IF ~M6.ok THEN M6
                         ELSE Succeed([M6 EXCEPT !.db.frgcnt_ = @ - M6.db.dfunit_])
                 IN Passed(Invoke("defrag_impl", <<M5, M5.db.dfunit_ * HDBDFRGCEF>>))
            ELSE Succeed(M5)
        Stepped(st) ==
            IF st.m.ok \/ st.m.err = "NOREC" THEN Defragged(Succeed(st.m)) ELSE st.m
        Moved(M4) ==
            IF ~M4.ok THEN M4
            ELSE IF step THEN Stepped(step_impl(M4, i, 1)) ELSE Defragged(M4)
        Visited(M1, rec) ==
            LET rsiz == calc_record_size(M1, rec.ksiz, Len(dec.vbuf))
                Adjusted(a) ==
                    IF ~a.m.ok THEN a.m
                    ELSE Moved(Invoke("write_record", <<a.m, a.rec, TRUE>>))
            IN IF dec.act = "REMOVE"
               THEN Defragged(Invoke("accept_impl", <<M1, "repeat_remove", rec.kbuf, <<>>, TRUE>>))
               ELSE IF dec.act = "NOP" THEN Moved(M1)
               ELSE IF rsiz <= rec.rsiz
               THEN Adjusted(Invoke("adjust_record",
                                    <<M1, [rec EXCEPT !.psiz = rec.rsiz - rsiz,
                                                      !.vsiz = Len(dec.vbuf),
                                                      !.vbuf = dec.vbuf]>>))
               ELSE Defragged(Invoke("accept_impl", <<M1, "repeat", rec.kbuf, dec.vbuf, TRUE>>))
        Found(st) == IF ~st.m.ok THEN st.m ELSE Visited(st.m, st.rec)
    IN IF M.db.omode = {} THEN set_error(M, "INVALID")
       ELSE IF writable /\ ~M.db.writer_ THEN set_error(M, "NOPERM")
       ELSE IF M.db.curs_[i].off < 1 THEN set_error(M, "NOREC")
       ELSE Found(step_impl(M, i, 0))

\* File::synchronize: the mapped region is flushed when hard, the file is
\* cut to its logical size, and the file is flushed when hard
File_synchronize(M, hard) ==
    LET M1 == IF hard /\ M.core.msiz > 0 /\ Min(M.core.msiz, M.core.psiz) > 0
              THEN Sync(M, "data") ELSE M
        M2 == [ftruncate(M1, M1.core.lsiz) EXCEPT !.core.psiz = Min(@, M1.core.lsiz)]
    IN Succeed(IF hard THEN Sync(M2, "data") ELSE M2)

\* HashDB::synchronize_impl, without a postprocessor
synchronize_impl(M, hard) ==
    LET Synced(M3, err) ==
            [(IF M3.ok THEN M3 ELSE set_error(M3, "SYSTEM")) EXCEPT !.ok = ~err /\ M3.ok]
        Dumped(M2, err) ==
            Synced(Invoke("File_synchronize", <<[M2 EXCEPT !.ok = TRUE], hard>>), err \/ ~M2.ok)
        Pooled(M1) == Dumped(Invoke("dump_meta", <<[M1 EXCEPT !.ok = TRUE]>>), ~M1.ok)
    IN Pooled(IF hard THEN Invoke("dump_free_blocks", <<[M EXCEPT !.ok = TRUE]>>)
              ELSE [M EXCEPT !.ok = TRUE])

\* HashDB::synchronize
synchronize(M, hard) ==
    IF M.db.omode = {} THEN set_error(M, "INVALID")
    ELSE IF ~M.db.writer_ THEN set_error(M, "NOPERM")
    ELSE Invoke("synchronize_impl", <<M, hard>>)

\* the call of the member function named f with the arguments a
Invoke(f, a) ==
    CASE f = "walwrite" -> walwrite(a[1], a[2], a[3], a[4])
      [] f = "walapply" -> walapply(a[1])
      [] f = "File_open" -> File_open(a[1], a[2], a[3])
      [] f = "File_write" -> File_write(a[1], a[2], a[3])
      [] f = "File_write_fast" -> File_write_fast(a[1], a[2], a[3])
      [] f = "File_read" -> File_read(a[1], a[2], a[3])
      [] f = "File_read_fast" -> File_read_fast(a[1], a[2], a[3])
      [] f = "File_truncate" -> File_truncate(a[1], a[2])
      [] f = "File_begin_transaction" -> File_begin_transaction(a[1], a[2], a[3])
      [] f = "File_end_transaction" -> File_end_transaction(a[1], a[2])
      [] f = "File_write_transaction" -> File_write_transaction(a[1], a[2], a[3])
      [] f = "File_close" -> File_close(a[1])
      [] f = "dump_meta" -> dump_meta(a[1])
      [] f = "dump_auto_meta" -> dump_auto_meta(a[1])
      [] f = "load_meta" -> load_meta(a[1])
      [] f = "set_flag" -> set_flag(a[1], a[2], a[3])
      [] f = "set_bucket" -> set_bucket(a[1], a[2], a[3])
      [] f = "get_bucket" -> get_bucket(a[1], a[2])
      [] f = "set_chain" -> set_chain(a[1], a[2], a[3])
      [] f = "read_record" -> read_record(a[1], a[2])
      [] f = "write_record" -> write_record(a[1], a[2], a[3])
      [] f = "write_free_block" -> write_free_block(a[1], a[2], a[3])
      [] f = "insert_free_block" -> insert_free_block(a[1], a[2], a[3])
      [] f = "fetch_free_block" -> fetch_free_block(a[1], a[2])
      [] f = "adjust_record" -> adjust_record(a[1], a[2])
      [] f = "cut_chain" -> cut_chain(a[1], a[2], a[3], a[4])
      [] f = "shift_record" -> shift_record(a[1], a[2], a[3])
      [] f = "defrag_impl" -> defrag_impl(a[1], a[2])
      [] f = "begin_transaction_impl" -> begin_transaction_impl(a[1])
      [] f = "commit_transaction" -> commit_transaction(a[1])
      [] f = "begin_auto_transaction" -> begin_auto_transaction(a[1])
      [] f = "commit_auto_transaction" -> commit_auto_transaction(a[1])
      [] f = "abort_auto_transaction" -> abort_auto_transaction(a[1])
      [] f = "abort_transaction" -> abort_transaction(a[1])
      [] f = "dump_free_blocks" -> dump_free_blocks(a[1])
      [] f = "dump_empty_free_blocks" -> dump_empty_free_blocks(a[1])
      [] f = "load_free_blocks" -> load_free_blocks(a[1])
      [] f = "trim_file" -> trim_file(a[1])
      [] f = "close" -> close(a[1])
      [] f = "reorganize_file" -> reorganize_file(a[1])
      [] f = "open" -> open(a[1], a[2])
      [] f = "Call" -> Call(a[1], a[2], a[3], a[4])
      [] f = "defrag" -> defrag(a[1], a[2])
      [] f = "begin_transaction_try" -> begin_transaction_try(a[1], a[2])
      [] f = "end_transaction" -> end_transaction(a[1], a[2])
      [] f = "AcceptStep" -> AcceptStep(a[1], a[2], a[3])
      [] f = "accept_impl" -> accept_impl(a[1], a[2], a[3], a[4], a[5])
      [] f = "iterate_impl" -> iterate_impl(a[1], a[2])
      [] f = "iterate" -> iterate(a[1], a[2], a[3])
      [] f = "clear" -> clear(a[1])
      [] f = "Cursor" -> Cursor(a[1])
      [] f = "Cursor_jump" -> Cursor_jump(a[1], a[2])
      [] f = "Cursor_jump_key" -> Cursor_jump_key(a[1], a[2], a[3])
      [] f = "Cursor_step" -> Cursor_step(a[1], a[2])
      [] f = "Cursor_accept" -> Cursor_accept(a[1], a[2], a[3], a[4], a[5])
      [] f = "File_synchronize" -> File_synchronize(a[1], a[2])
      [] f = "synchronize_impl" -> synchronize_impl(a[1], a[2])
      [] f = "synchronize" -> synchronize(a[1], a[2])

\* HashDB::count, size
count(M) == M.db.count_
size(M) == M.db.lsiz_

(***************************************************************************)
(* The configurations explored.                                            *)
(***************************************************************************)
NumVals == 3
NumThreads == 2
TuneApow == 3
TuneFpow == 1
TuneBnum == 2
TuneDfunit == 0

Keys == 1..NumKeys
Vals == 1..NumVals
Threads == 1..NumThreads

\* the values: empty, shorter than the alignment, several times the alignment
ValOf(v) ==
    CASE v = 1 -> <<>>
      [] v = 2 -> [i \in 1..4 |-> 10 + i]
      [] v = 3 -> [i \in 1..20 |-> 30 + i]
      [] OTHER -> [i \in 1..4 |-> 10 * v + i]

\* the tuning: small addresses, chains as trees or as lists
Tune(opts) == [apow |-> TuneApow, fpow |-> TuneFpow, opts |-> opts, bnum |-> TuneBnum,
               msiz |-> HDBDEFMSIZ, dfunit |-> TuneDfunit]
TuneOpts == {TSMALL, TSMALL + TLINEAR}

\* a database created and opened by a writer
Fresh(opts) == Invoke("open", <<NewMachine(Tune(opts)), {"OWRITER", "OCREATE"}>>)

\* the machine of the current state
Cur == [db |-> db, core |-> core, disk |-> disk, lk |-> lk, steps |-> <<>>,
        ok |-> TRUE, err |-> "SUCCESS"]
Prime == [db |-> db', core |-> core', disk |-> disk', lk |-> lk', steps |-> <<>>,
          ok |-> TRUE, err |-> "SUCCESS"]

Store(M) == db' = M.db /\ core' = M.core /\ disk' = M.disk /\ lk' = M.lk

\* what get answers for the key k: [ok, err, out]
Get(M, k) ==
    LET Reply(cx) == [ok |-> cx.ok, err |-> cx.err, out |-> cx.out]
    IN Reply(Invoke("Call", <<M, "get", KeyOf(k), <<>>>>).c)

\* the table as its users see it
View(M) == [count |-> count(M), vals |-> [k \in Keys |-> Get(M, k)]]

NoView == [count |-> 0 - 1, vals |-> <<>>]
\* the history kept for the properties: the number of calls made, the last
\* call and its outcome, the last successful write of every key, the view
\* when the open transaction began with the writes made in it and, where
\* threads run together, what every key holds by the writes that have left
\* their critical section and the thread whose transaction is open
NoOp == [kind |-> "none", key |-> 0, val |-> 0, ok |-> TRUE, err |-> "SUCCESS",
         out |-> <<>>, path |-> "none"]
NoWrite == [op |-> "none", val |-> 0, path |-> "none"]
Ghost0 == [nops |-> 0, last |-> NoOp, wr |-> [k \in Keys |-> NoWrite],
           snap |-> NoView, muts |-> 0, abs |-> <<>>, own |-> 0]

Done(kind, k, v, cx) ==
    [kind |-> kind, key |-> k, val |-> v, ok |-> cx.ok, err |-> cx.err, out |-> cx.out,
     path |-> cx.path]
DoneM(kind, M) ==
    [kind |-> kind, key |-> 0, val |-> 0, ok |-> M.ok, err |-> M.err, out |-> <<>>,
     path |-> "none"]

IdleThreads == [t \in Threads |-> Idle]

\* the databases the runs start from: a new one, and ones a writer has
\* filled before: three records in one chain, the first one then rewritten
\* in place with its tail freed, and further the second one removed
RECURSIVE Load(_, _)
Load(M, calls) ==
    LET Called(R) == IF R.db.omode = {} THEN R ELSE Load(R, Tail(calls))
    IN IF calls = <<>> THEN M
       ELSE Called(Invoke("Call", <<M, calls[1][1], KeyOf(calls[1][2]), ValOf(calls[1][3])>>).m)

Filled == <<<<"set", 1, 3>>, <<"set", 2, 2>>, <<"set", 3, 2>>, <<"set", 1, 1>>>>
Preloads == {<<>>, Filled, Filled \o <<<<"remove", 2, 1>>>>}

\* the last write of every key in the calls that filled the database
RECURSIVE Written(_, _)
Written(calls, wr) ==
    IF calls = <<>> THEN wr
    ELSE Written(Tail(calls),
                 [wr EXCEPT ![calls[1][2]] =
                     [op |-> calls[1][1], val |-> calls[1][3], path |-> "filled"]])

(***************************************************************************)
(* Spec: one thread calling set, add, remove and get.                      *)
(***************************************************************************)
Init ==
    /\ \E o \in TuneOpts, p \in Preloads :
          LET Start(M) == db = M.db /\ core = M.core /\ disk = M.disk /\ lk = M.lk
          IN /\ Start(Load(Fresh(o), p))
             /\ gh = [Ghost0 EXCEPT !.wr = Written(p, @)]
    /\ th = IdleThreads

\* the history after the call cx of op on key k with value v
Record(g, op, k, v, cx) ==
    LET wrote == cx.ok /\ cx.path # "none"
    IN [g EXCEPT !.nops = @ + 1,
                 !.last = Done(op, k, v, cx),
                 !.wr[k] = IF wrote THEN [op |-> op, val |-> v, path |-> cx.path] ELSE @,
                 !.muts = IF wrote /\ g.snap # NoView THEN @ + 1 ELSE @]

\* a call of op on key k with value v, run to its end
DoCall(op, k, v) ==
    LET Returned(r) == Store(r.m) /\ gh' = Record(gh, op, k, v, r.c)
    IN /\ gh.nops < MaxOps
       /\ Returned(Invoke("Call", <<Cur, op, KeyOf(k), ValOf(v)>>))
       /\ UNCHANGED th

Set == \E k \in Keys, v \in Vals : DoCall("set", k, v)
Add == \E k \in Keys, v \in Vals : DoCall("add", k, v)
Remove == \E k \in Keys : DoCall("remove", k, 1)
GetOp == \E k \in Keys : DoCall("get", k, 1)

Next == Set \/ Add \/ Remove \/ GetOp

Spec == Init /\ [][Next]_vars

(***************************************************************************)
(* Properties of set, add, remove and get, checked under Spec.             *)
(***************************************************************************)
Absent == [ok |-> FALSE, err |-> "NOREC", out |-> <<>>]

\* C3: a get of key k that follows a successful set(k, v), with no other
\* write to k in between, succeeds and returns exactly v, whether the set
\* inserted the record, rewrote it in place or moved it; the values range
\* from empty to several times the alignment.
C3_SetThenGet ==
    (gh.last.kind = "get" /\ gh.wr[gh.last.key].op = "set")
        => (gh.last.ok /\ gh.last.out = ValOf(gh.wr[gh.last.key].val))

\* a get after a set that moved the record to another place
C3_Witness ==
    /\ gh.last.kind = "get" /\ gh.last.ok
    /\ gh.wr[gh.last.key].op = "set" /\ gh.wr[gh.last.key].path = "relocate"
    /\ gh.last.out = ValOf(gh.wr[gh.last.key].val)
    /\ Len(gh.last.out) > 2 * db.align_

\* C4: an add on a key that is present fails with DUPREC and changes neither
\* the count nor any record: after add(k, v1); add(k, v2) the value is v1.
C4_AddDuplicate ==
    [][(gh'.last.kind = "add" /\ Get(Cur, gh'.last.key).ok)
          => (/\ ~gh'.last.ok /\ gh'.last.err = "DUPREC"
              /\ View(Prime) = View(Cur)
              /\ disk'.data = disk.data)]_vars

\* a second add on a key that an add inserted, with another value
C4_Witness ==
    /\ gh.last.kind = "add" /\ ~gh.last.ok /\ gh.last.err = "DUPREC"
    /\ gh.wr[gh.last.key].op = "add" /\ gh.wr[gh.last.key].val # gh.last.val
    /\ Get(Cur, gh.last.key).out = ValOf(gh.wr[gh.last.key].val)

\* C5: after a successful remove(k), get(k) fails with NOREC; a remove of a
\* key that is absent fails with NOREC and changes neither the count nor any
\* record.
C5_Remove ==
    [][gh'.last.kind = "remove"
          => (/\ gh'.last.ok => Get(Prime, gh'.last.key) = Absent
              /\ Get(Cur, gh'.last.key) = Absent
                    => (/\ ~gh'.last.ok /\ gh'.last.err = "NOREC"
                        /\ View(Prime) = View(Cur)
                        /\ disk'.data = disk.data))]_vars

\* a remove of a key that a remove took out before
C5_Witness ==
    /\ gh.last.kind = "remove" /\ ~gh.last.ok /\ gh.last.err = "NOREC"
    /\ gh.wr[gh.last.key].op = "remove"
    /\ Get(Cur, gh.last.key) = Absent

(***************************************************************************)
(* SpecTran: one thread in explicit transactions, and the death of the     *)
(* process while a transaction is open.  The process can die between any   *)
(* two writes to the files; the files then hold what was written so far.   *)
(***************************************************************************)
MaxTranOps == 3

TranStarts == {Load(Fresh(TSMALL), Filled \o <<<<"remove", 2, 1>>>>),
               Load(Fresh(TSMALL + TLINEAR), Filled)}

InitTran ==
    /\ \E M \in TranStarts : db = M.db /\ core = M.core /\ disk = M.disk /\ lk = M.lk
    /\ th = IdleThreads
    /\ gh = Ghost0

Alive == gh.last.kind \notin {"crash", "recover"}

\* begin_transaction by the only thread: no transaction is open
TBegin ==
    LET Returned(M) ==
            /\ Store(M)
            /\ gh' = [gh EXCEPT !.nops = @ + 1, !.last = DoneM("begin", M),
                                !.snap = View(Cur), !.muts = 0]
    IN /\ Alive /\ ~db.tran_ /\ gh.nops < MaxTranOps
       /\ Returned(Invoke("begin_transaction_try", <<Cur, FALSE>>))
       /\ UNCHANGED th

\* the calls made in the transaction: [name, key, value]
TranCalls == {<<"set", k, v>> : k \in Keys, v \in Vals} \cup {<<"remove", k, 1>> : k \in Keys}

TMutate ==
    \E c \in TranCalls :
        LET Returned(r) == Store(r.m) /\ gh' = Record(gh, c[1], c[2], c[3], r.c)
        IN /\ Alive /\ db.tran_ /\ gh.nops < MaxTranOps
           /\ Returned(Invoke("Call", <<Cur, c[1], KeyOf(c[2]), ValOf(c[3])>>))
           /\ UNCHANGED th

\* end_transaction(commit)
TEnd(commit) ==
    LET Returned(M) ==
            /\ Store(M)
            /\ gh' = [gh EXCEPT !.last = DoneM(IF commit THEN "commit" ELSE "abort", M),
                                !.snap = IF commit THEN NoView ELSE @]
    IN /\ Alive /\ db.tran_
       /\ Returned(Invoke("end_transaction", <<Cur, commit>>))
       /\ UNCHANGED th
TCommit == TEnd(TRUE)
TAbort == TEnd(FALSE)

\* the calls that can be going on when the process dies in a transaction:
\* <<name, the persistent states the call goes through>>
CrashRuns ==
    {<<c[1], Invoke("Call", <<Cur, c[1], KeyOf(c[2]), ValOf(c[3])>>).m.steps>> : c \in TranCalls}
      \cup {<<IF commit THEN "commit" ELSE "abort", Invoke("end_transaction", <<Cur, commit>>).steps>> :
                commit \in BOOLEAN}

\* <<name of the call going on, files left behind>>.  The commit has
\* happened once it has cleared the WAL: the transaction is then closed.
CrashPoints ==
    {p \in {<<"none", disk>>}
             \cup UNION {{<<r[1], r[2][i]>> : i \in 1..Len(r[2])} : r \in CrashRuns} :
        ~(p[1] = "commit" /\ ~p[2].wal.magic)}

\* the process dies in the open transaction: its memory is lost
TCrash ==
    /\ Alive /\ db.tran_
    /\ \E p \in CrashPoints :
          /\ db' = NewDB(Tune(TSMALL)) /\ core' = NewCore /\ lk' = NoLocks
          /\ disk' = p[2]
          /\ gh' = [gh EXCEPT !.nops = MaxTranOps,
                              !.last = [NoOp EXCEPT !.kind = "crash", !.path = p[1]]]
          /\ UNCHANGED th

\* a new process opens the database as a writer
TRecover ==
    LET Returned(M) ==
            /\ Store(M)
            /\ gh' = [gh EXCEPT !.last = [DoneM("recover", M) EXCEPT !.path = gh.last.path]]
    IN /\ gh.last.kind = "crash"
       /\ Returned(Invoke("open", <<Cur, {"OWRITER", "OCREATE"}>>))
       /\ UNCHANGED th

NextTran == TBegin \/ TMutate \/ TCommit \/ TAbort \/ TCrash \/ TRecover

SpecTran == InitTran /\ [][NextTran]_vars

\* C1: when a transaction is aborted, the count and the value every key
\* reads are again what they were when the transaction began, whatever
\* was set or removed in it.
C1_AbortRestores ==
    gh.last.kind = "abort" => gh.last.ok /\ ~db.tran_ /\ View(Cur) = gh.snap

\* two writes went into the transaction, the table had changed, and the
\* abort has run
C1_Witness ==
    /\ gh.last.kind = "abort" /\ gh.muts >= 2
    /\ gh.snap # NoView /\ gh.snap.count > 0
    /\ \E k \in Keys : gh.wr[k].path = "relocate"

\* C2: when the process dies in an open transaction, the next open restores
\* the table as it was when the transaction began.
C2_CrashRecovers ==
    gh.last.kind = "recover" => gh.last.ok /\ ~db.tran_ /\ View(Cur) = gh.snap

\* the process died within a call that followed a write of the transaction,
\* and the database has been opened again
C2_Witness ==
    /\ gh.last.kind = "recover" /\ gh.muts >= 1
    /\ gh.last.path \in {"set", "remove", "commit"}
    /\ gh.snap # NoView /\ gh.snap.count > 0

(***************************************************************************)
(* SpecDefrag: one thread writing and defragmenting, by steps or in whole  *)
(* passes (step 0).                                                        *)
(***************************************************************************)
MaxDefragOps == 3
MaxStep == 2

InitDefrag ==
    /\ \E M \in {Load(Fresh(o), p) : o \in TuneOpts, p \in Preloads \ {<<>>}} :
          db = M.db /\ core = M.core /\ disk = M.disk /\ lk = M.lk
    /\ th = IdleThreads
    /\ gh = Ghost0

DMutate ==
    \E c \in TranCalls :
        LET Returned(r) == Store(r.m) /\ gh' = Record(gh, c[1], c[2], c[3], r.c)
        IN /\ gh.nops < MaxDefragOps
           /\ Returned(Invoke("Call", <<Cur, c[1], KeyOf(c[2]), ValOf(c[3])>>))
           /\ UNCHANGED th

\* the history after defrag(step): key is the size before the pass, or
\* before the first of two whole passes in a row; path tells whether the
\* pass followed a whole pass ("again") or changed the file ("moved")
DefragDone(step, M) ==
    LET again == step = 0 /\ gh.last.kind = "defrag" /\ gh.last.val = 0 /\ gh.last.ok
    IN [DoneM("defrag", M) EXCEPT
           !.val = step,
           !.key = IF again THEN gh.last.key ELSE size(Cur),
           !.path = IF again THEN "again"
                    ELSE IF M.disk.data # disk.data THEN "moved" ELSE "none"]

DDefragOf(step) ==
    LET Returned(M) ==
            /\ Store(M)
            /\ gh' = [gh EXCEPT !.nops = @ + 1, !.last = DefragDone(step, M)]
    IN /\ gh.nops < MaxDefragOps
       /\ Returned(Invoke("defrag", <<Cur, step>>))
       /\ UNCHANGED th

DDefrag == DDefragOf(0)
DDefragStep == \E step \in 1..MaxStep : DDefragOf(step)

NextDefrag == DMutate \/ DDefrag \/ DDefragStep

SpecDefrag == InitDefrag /\ [][NextDefrag]_vars

WholePass(g) == g.last.kind = "defrag" /\ g.last.val = 0

\* C9: a whole pass of defrag succeeds and leaves the count of records and
\* what get answers for every key as they were.
C9_DefragKeeps ==
    [][WholePass(gh') => (gh'.last.ok /\ View(Prime) = View(Cur))]_vars

\* a whole pass has moved records of a table of two or more
C9_Witness ==
    WholePass(gh) /\ gh.last.ok /\ gh.last.path = "moved" /\ count(Cur) >= 2

\* C10: a whole pass of defrag does not raise the size size() reports, and
\* a whole pass right after a whole pass changes neither the size nor a
\* byte of the file (so no record's offset) nor the pool of free blocks.
C10_DefragTwice ==
    [][WholePass(gh') =>
         /\ size(Prime) <= size(Cur)
         /\ (WholePass(gh) /\ gh.last.ok) =>
                /\ gh'.last.ok
                /\ size(Prime) = size(Cur)
                /\ disk'.data = disk.data /\ disk'.fsize = disk.fsize
                /\ db'.fbp_ = db.fbp_]_vars

\* the second of two whole passes has run, the first one having made the
\* file smaller
C10_Witness ==
    WholePass(gh) /\ gh.last.path = "again" /\ gh.last.key > size(Cur) /\ count(Cur) >= 1

(***************************************************************************)
(* SpecConc: the threads call set, remove and get at the same time, one    *)
(* step of accept after the other, on a key of either bucket.              *)
(***************************************************************************)
MaxConcOps == 2

\* a key of the first bucket and one of the second
ConcKeys == {1, NumKeys + 1}
ConcCalls == {<<"set", k, v>> : k \in ConcKeys, v \in Vals}
               \cup {<<op, k, 1>> : op \in {"remove", "get"}, k \in ConcKeys}
ConcStarts == {Load(Fresh(o), Filled \o <<<<"set", NumKeys + 1, 2>>>>) : o \in TuneOpts}

KeyIx(kbuf) == kbuf[1] - 96
Present(vbuf) == [ok |-> TRUE, err |-> "SUCCESS", out |-> vbuf]

InitConc ==
    /\ \E M \in ConcStarts :
          /\ db = M.db /\ core = M.core /\ disk = M.disk /\ lk = M.lk
          /\ gh = [Ghost0 EXCEPT !.abs = [k \in ConcKeys |-> Get(M, k)]]
    /\ th = IdleThreads

\* the thread t calls set, remove or get; gh.own is 1 once a call has begun
\* while the call of another thread was under way
CStart(t) ==
    \E c \in ConcCalls :
        /\ gh.nops < MaxConcOps /\ th[t].pc = "done"
        /\ th' = [th EXCEPT ![t] = NewCall(c[1], KeyOf(c[2]), ValOf(c[3]))]
        /\ gh' = [gh EXCEPT !.nops = @ + 1,
                            !.own = IF \E u \in Threads : th[u].pc # "done" THEN 1 ELSE @]
        /\ UNCHANGED <<db, core, disk, lk>>

\* the history after a step of the call cx: a write has taken place for
\* the other threads when it leaves its critical section
Seen(g, cx) ==
    IF cx.pc = "unlock" /\ cx.ok /\ cx.path # "none"
    THEN [g EXCEPT !.abs[KeyIx(cx.kbuf)] =
             IF cx.path = "remove" THEN Absent ELSE Present(cx.vbuf)]
    ELSE g

\* the thread t takes the next step of its call
CStep(t) ==
    LET Stepped(r) == Store(r.m) /\ th' = [th EXCEPT ![t] = r.c]
    IN /\ th[t].pc # "done" /\ AcceptEnabled(Cur, th[t], t)
       /\ Stepped(Invoke("AcceptStep", <<Cur, th[t], t>>))
       /\ gh' = Seen(gh, th[t])

NextConc == \E t \in Threads : CStart(t) \/ CStep(t)

SpecConc == InitConc /\ [][NextConc]_vars

(***************************************************************************)
(* SpecReopen: a writer fills the database, closes it and opens it again,  *)
(* as a writer or as a reader.                                             *)
(***************************************************************************)
ReopenModes == {{"OWRITER"}, {"OREADER"}}

\* close, the view of the table kept from just before it
CloseOp ==
    LET Returned(M) == Store(M) /\ gh' = [gh EXCEPT !.last = DoneM("close", M),
                                                    !.snap = View(Cur)]
    IN /\ db.omode # {}
       /\ Returned(Invoke("close", <<Cur>>))
       /\ UNCHANGED th

\* open of the file that exists
OpenOp ==
    \E mode \in ReopenModes :
        LET Returned(M) == Store(M) /\ gh' = [gh EXCEPT !.last = DoneM("open", M)]
        IN /\ db.omode = {}
           /\ Returned(Invoke("open", <<Cur, mode>>))
           /\ UNCHANGED th

NextReopen == Set \/ Remove \/ CloseOp \/ OpenOp

SpecReopen == Init /\ [][NextReopen]_vars

\* C11: after a successful close of a database opened by a writer and a
\* successful open of the same file, count() and the value of every key are
\* what they were immediately before the close.
C11_ReopenKeeps ==
    [][(gh.last.kind = "close" /\ gh.last.ok /\ gh'.last.kind = "open" /\ gh'.last.ok)
          => View(Prime) = gh.snap]_vars

\* a database reopened after writes that left a free block and two records,
\* one of them rewritten
C11_Witness ==
    /\ gh.last.kind = "open" /\ gh.last.ok /\ db.omode # {}
    /\ gh.snap = View(Cur) /\ count(Cur) >= 2
    /\ \E k \in Keys : gh.wr[k].op = "remove"
    /\ \E k \in Keys : gh.wr[k].path = "relocate"

(***************************************************************************)
(* SpecFile: a File alone.  A writer opens it, fills it, and then writes   *)
(* and truncates inside transactions that it commits or aborts.  The file  *)
(* lies within the mapped region, beyond it, or across its end.            *)
(***************************************************************************)
MaxFileOps == 3
MaxFileTrans == 2

\* <<size of the mapped region, bytes in the file at the start>>
FileStarts == {<<0, 8>>, <<PAGESIZE, 8>>, <<PAGESIZE, PAGESIZE - 2>>}

\* the bytes the file holds at the start
FileFill(n) == <<>> \o [i \in 1..n |-> 100 + (i % 50)]

FileFresh(msiz, n) ==
    Invoke("File_write",
           <<Invoke("File_open", <<NewMachine(Tune(TSMALL)), {"OWRITER", "OCREATE"}, msiz>>),
             0, FileFill(n)>>)

\* the history of a File: the bytes, the size and the guard offset when the
\* transaction began, and the least size the file was cut to in it
FileSnap(M, hard, off) ==
    [data |-> GetBytes(M.disk, 0, M.core.lsiz), size |-> M.core.lsiz, base |-> off,
     hard |-> hard, lim |-> M.core.lsiz, len0 |-> gh.snap.len0]

\* what a call did to the files, step by step
RECURSIVE FileEvents(_, _, _)
FileEvents(prev, steps, i) ==
    IF i > Len(steps) THEN <<>>
    ELSE IF "sync" \in DOMAIN steps[i]
         THEN <<"sync " \o steps[i].sync>> \o FileEvents(prev, steps, i + 1)
         ELSE <<(IF steps[i].wal = prev.wal THEN "data"
                 ELSE IF steps[i].wal.msgs = <<>> /\ prev.wal.magic /\ ~steps[i].wal.magic
                      THEN "clear" ELSE "log")>>
                \o FileEvents(steps[i], steps, i + 1)

\* the regions the WAL holds
WalRanges(wal) == <<>> \o [i \in 1..Len(wal.msgs) |-> <<wal.msgs[i].off, Len(wal.msgs[i].body)>>]

FileDone(kind, off, arg, M) ==
    [kind |-> kind, key |-> off, val |-> arg, ok |-> M.ok, err |-> "SUCCESS",
     out |-> FileEvents(disk, M.steps, 1), path |-> WalRanges(disk.wal)]

FileStore(M) == core' = M.core /\ disk' = M.disk /\ UNCHANGED <<db, lk, th>>

InitFile ==
    /\ \E s \in FileStarts :
          LET Start(M) == core = M.core /\ disk = M.disk
          IN /\ Start(FileFresh(s[1], s[2]))
             /\ gh = [Ghost0 EXCEPT !.snap = [len0 |-> s[2]]]
    /\ db = NewDB(Tune(TSMALL)) /\ lk = NoLocks /\ th = IdleThreads

\* begin_transaction(hard, off): the guard offset is 0 or inside the file
FBegin ==
    \E hard \in BOOLEAN, off \in {0, gh.snap.len0 - 5} :
        LET Returned(M) ==
                /\ FileStore(M)
                /\ gh' = [gh EXCEPT !.last = FileDone("begin", off, hard, M),
                                    !.snap = FileSnap(Cur, hard, off), !.muts = @ + 1]
        IN /\ ~core.tran /\ gh.nops < MaxFileOps /\ gh.muts < MaxFileTrans
           /\ Returned(Invoke("File_begin_transaction", <<Cur, hard, off>>))

\* write(off, buf, size) in the transaction: below the guard offset, across
\* it, inside the file, across its end and beyond it; the bytes written
\* differ from one write to the next
FWrite ==
    \E w \in {<<0 - 7, 1>>, <<0 - 6, 3>>, <<0 - 3, 3>>, <<0 - 1, 3>>, <<1, 1>>} :
        LET off == gh.snap.len0 + w[1]
            buf == <<>> \o [i \in 1..w[2] |-> 200 + gh.nops]
            Returned(M) ==
                /\ FileStore(M)
                /\ gh' = [gh EXCEPT !.nops = @ + 1, !.last = FileDone("write", off, buf, M)]
        IN /\ core.tran /\ gh.nops < MaxFileOps
           /\ Returned(Invoke("File_write", <<Cur, off, buf>>))

\* truncate(size) in the transaction: the file is cut or grows
FTruncate ==
    \E d \in {0 - 4, 2} :
        LET siz == gh.snap.len0 + d
            Returned(M) ==
                /\ FileStore(M)
                /\ gh' = [gh EXCEPT !.nops = @ + 1, !.last = FileDone("truncate", siz, 0, M),
                                    !.snap.lim = Min(@, siz)]
        IN /\ core.tran /\ gh.nops < MaxFileOps
           /\ Returned(Invoke("File_truncate", <<Cur, siz>>))

\* end_transaction(commit)
FEnd ==
    \E commit \in BOOLEAN :
        LET Returned(M) ==
                /\ FileStore(M)
                /\ gh' = [gh EXCEPT !.last = FileDone("end", 0, commit, M)]
        IN /\ core.tran
           /\ Returned(Invoke("File_end_transaction", <<Cur, commit>>))

NextFile == FBegin \/ FWrite \/ FTruncate \/ FEnd

SpecFile == InitFile /\ [][NextFile]_vars

\* two regions of the WAL that have a byte in common
Overlap(r1, r2) == r1[1] < r2[1] + r2[2] /\ r2[1] < r1[1] + r1[2]

\* C13: whatever was written and truncated in a File transaction,
\* end_transaction(false) brings every byte of [guard offset, size at begin)
\* and the logical size of the file back to what they were at
\* begin_transaction; a region written several times ends with its oldest
\* content, the WAL being applied from its last message to its first.
C13_AbortRestoresFile ==
    [][(gh'.last.kind = "end" /\ gh'.last.val = FALSE)
          => (/\ gh'.last.ok
              /\ File_size(Prime) = gh.snap.size
              /\ \A i \in (gh.snap.base + 1)..gh.snap.size :
                    GetBytes(disk', i - 1, 1) = <<gh.snap.data[i]>>)]_vars

\* an abort after two writes to the same bytes and a cut of the file
C13_Witness ==
    /\ gh.last.kind = "end" /\ gh.last.val = FALSE /\ gh.last.ok
    /\ Len(gh.last.path) >= 3
    /\ Overlap(gh.last.path[1], gh.last.path[2])
    /\ gh.snap.lim < gh.snap.size
    /\ GetBytes(disk, 0, gh.snap.size) = gh.snap.data

\* what a write in a transaction appends to the WAL when the region is
\* clipped above at lim: the bytes the region held, in one message and before
\* any byte of the data file changes
Journaled(lim) ==
    LET off == gh'.last.key
        lo == Max(off, gh.snap.base)
        hi == Min(off + Len(gh'.last.val), lim)
        ev == gh'.last.out
    IN /\ gh'.last.ok
       /\ disk'.wal.msgs = IF lo < hi
                           THEN Append(disk.wal.msgs,
                                       [off |-> lo, body |-> GetBytes(disk, lo, hi - lo)])
                           ELSE disk.wal.msgs
       /\ \A i \in 1..Len(ev) : ev[i] = "log" => \A j \in 1..(i - 1) : ev[j] # "data"
       /\ GetBytes(disk', off, Len(gh'.last.val)) = gh'.last.val

\* C14 as stated: while a File transaction is open, every write first appends
\* to the WAL the bytes its region holds, clipped to [guard offset, size at
\* begin), and then stores the new bytes.
C14_WriteJournalsToBeginSize ==
    [][gh'.last.kind = "write" => Journaled(gh.snap.size)]_vars

\* C14: while a File transaction is open, every write first appends to the
\* WAL the bytes its region holds, clipped below at the guard offset and
\* above at the size at begin or, once the file was truncated in the
\* transaction, at the least size it was truncated to (truncate has logged
\* the bytes from there on), and then stores the new bytes; no byte below
\* the guard offset or at or beyond the size at begin is logged by a write.
C14_WriteJournals ==
    [][gh'.last.kind = "write" => Journaled(gh.snap.lim)]_vars

\* a write across the guard offset that logged the part above it, and a
\* write behind a cut of the file that logged nothing
C14_Witness ==
    /\ gh.last.kind = "write" /\ gh.last.ok /\ core.tran
    /\ \/ /\ gh.last.key < gh.snap.base
          /\ Len(disk.wal.msgs) = Len(gh.last.path) + 1
          /\ disk.wal.msgs[Len(disk.wal.msgs)].off = gh.snap.base
       \/ /\ gh.snap.lim <= gh.last.key /\ gh.last.key + Len(gh.last.val) <= gh.snap.size
          /\ WalRanges(disk.wal) = gh.last.path

\* C15: on a hard commit the data file and the WAL are flushed to the device
\* before the WAL is cleared: in what end_transaction(true) does to the files
\* of a hard transaction, the flush of the data file and the flush of the WAL
\* come before the step that clears the WAL.
C15_FlushBeforeClear ==
    (gh.last.kind = "end" /\ gh.last.val = TRUE /\ gh.snap.hard)
        => \A i \in 1..Len(gh.last.out) :
              gh.last.out[i] = "clear"
                 => /\ \E j \in 1..(i - 1) : gh.last.out[j] = "sync data"
                    /\ \E j \in 1..(i - 1) : gh.last.out[j] = "sync wal"

(***************************************************************************)
(* SpecPool: transactions on a database whose free block pool has room for *)
(* eight blocks and holds two of them or all eight when the run starts.    *)
(***************************************************************************)
\* n records set, the first r of them removed
PoolFill(n, r) ==
    (<<>> \o [i \in 1..n |-> <<"set", i, 2>>]) \o (<<>> \o [i \in 1..r |-> <<"remove", i, 1>>])

PoolFresh ==
    Invoke("open", <<NewMachine([Tune(TSMALL) EXCEPT !.fpow = TuneFpow + 2]),
                     {"OWRITER", "OCREATE"}>>)

PoolStarts == {Load(PoolFresh, PoolFill(4, 2)), Load(PoolFresh, PoolFill(9, 8))}

InitPool ==
    /\ \E M \in PoolStarts : db = M.db /\ core = M.core /\ disk = M.disk /\ lk = M.lk
    /\ th = IdleThreads
    /\ gh = Ghost0

\* begin_transaction, the pool kept from just before it
PBegin ==
    LET Returned(M) ==
            /\ Store(M)
            /\ gh' = [gh EXCEPT !.nops = @ + 1, !.last = DoneM("begin", M),
                                !.snap = View(Cur), !.muts = 0, !.abs = db.fbp_]
    IN /\ ~db.tran_ /\ gh.nops < MaxTranOps
       /\ Returned(Invoke("begin_transaction_try", <<Cur, FALSE>>))
       /\ UNCHANGED th

NextPool == PBegin \/ TMutate \/ TCommit \/ TAbort

SpecPool == InitPool /\ [][NextPool]_vars

\* C18: after end_transaction(false) the free block pool holds exactly the
\* entries it held when begin_transaction was called, whatever was allocated
\* and released in the transaction.
C18_AbortRestoresPool ==
    [][(gh'.last.kind = "abort" /\ gh'.last.ok) => db'.fbp_ = gh.abs]_vars

\* the same for the transactions that begin with a pool of at most
\* 2 * fpow + 1 blocks, which is what begin_transaction_impl copies
SmallPoolRestored ==
    [][(gh'.last.kind = "abort" /\ gh'.last.ok /\ Cardinality(gh.abs) <= db.fpow_ * 2 + 1)
          => db'.fbp_ = gh.abs]_vars

(***************************************************************************)
(* The record area and the chains, checked under SpecDefrag.               *)
(***************************************************************************)
\* the blocks that lie one after the other in the record area from off on:
\* <<offset, "rec" for a record, "free" for a free block, "bad" otherwise>>
RECURSIVE AreaBlocks(_, _)
AreaBlocks(M, off) ==
    LET Rest(rec) ==
            IF ~rec.ok \/ rec.rsiz < 1 THEN {<<off, "bad">>}
            ELSE {<<off, IF rec.psiz = UINT16_MAX THEN "free" ELSE "rec">>}
                    \cup AreaBlocks(M, off + rec.rsiz)
    IN IF off = M.db.lsiz_ THEN {}
       ELSE IF off > M.db.lsiz_ THEN {<<off, "bad">>}
       ELSE Rest(Invoke("read_record", <<M, off>>))

\* the blocks a bucket slot or a child pointer with the value off leads to
RECURSIVE ChainBlocks(_, _, _)
ChainBlocks(M, off, fuel) ==
    LET Below(rec) ==
            IF ~rec.ok THEN {<<off, "bad">>}
            ELSE IF rec.psiz = UINT16_MAX THEN {<<off, "free">>}
            ELSE {<<off, "rec">>} \cup ChainBlocks(M, rec.left, fuel - 1)
                                  \cup ChainBlocks(M, rec.right, fuel - 1)
    IN IF off = 0 THEN {}
       ELSE IF fuel = 0 THEN {<<off, "bad">>}
       ELSE Below(Invoke("read_record", <<M, off>>))

Reachable(M) ==
    UNION {ChainBlocks(M, get_bucket(M, bidx), ChainFuel(M)) : bidx \in 0..(M.db.bnum_ - 1)}

\* C19: after every operation that has completed, the records reachable
\* from the bucket table are exactly the records that lie in the record
\* area, as many as count() tells: no record lies there unreachable, no
\* bucket slot and no child pointer leads to a free block, and the area is
\* made of records and free blocks from its start to the end of the file.
C19_ChainsReachRecords ==
    LET Agree(area, reach) ==
            /\ \A b \in area : b[2] # "bad"
            /\ reach = {b \in area : b[2] = "rec"}
            /\ Cardinality(reach) = count(Cur)
    IN Agree(AreaBlocks(Cur, db.roff_), Reachable(Cur))

\* a pass of defrag over a part of the file has moved a record, and the area
\* holds two records or more, one under the other in a chain, and a free
\* block
C19_Witness ==
    /\ gh.last.kind = "defrag" /\ gh.last.val > 0 /\ gh.last.ok /\ gh.last.path = "moved"
    /\ count(Cur) >= 2
    /\ \E b \in AreaBlocks(Cur, db.roff_) : b[2] = "free"
    /\ \E b \in 0..(db.bnum_ - 1) : Cardinality(ChainBlocks(Cur, get_bucket(Cur, b), ChainFuel(Cur))) >= 2

(***************************************************************************)
(* SpecAuto: one thread writing to a database opened in the auto           *)
(* transaction mode, and the death of the process at any write to the      *)
(* files in a call or between two calls.                                   *)
(***************************************************************************)
AutoMode == {"OWRITER", "OCREATE", "OAUTOTRAN"}

AutoStarts == {Load(Invoke("open", <<NewMachine(Tune(o)), AutoMode>>), p) :
                  o \in TuneOpts, p \in Preloads \ {<<>>}}

InitAuto ==
    /\ \E M \in AutoStarts : db = M.db /\ core = M.core /\ disk = M.disk /\ lk = M.lk
    /\ th = IdleThreads
    /\ gh = Ghost0

\* set or remove, each in a transaction of its own
AMutate ==
    \E c \in TranCalls :
        LET Returned(r) == Store(r.m) /\ gh' = Record(gh, c[1], c[2], c[3], r.c)
        IN /\ Alive /\ gh.nops < MaxOps
           /\ Returned(Invoke("Call", <<Cur, c[1], KeyOf(c[2]), ValOf(c[3])>>))
           /\ UNCHANGED th

\* the process dies in the call c after the i-th write to the files: the
\* history keeps the call, the write, and what the table can hold when it
\* is opened again: what it held before the call or what the call makes it
\* hold
ACrashIn(c, r) ==
    \E i \in 1..Len(r.m.steps) :
        /\ db' = NewDB(Tune(TSMALL)) /\ core' = NewCore /\ lk' = NoLocks
        /\ disk' = r.m.steps[i]
        /\ gh' = [gh EXCEPT !.nops = MaxOps,
                            !.last = [NoOp EXCEPT !.kind = "crash", !.path = c[1],
                                                  !.key = c[2], !.val = i,
                                                  !.out = r.c.path],
                            !.abs = {View(Cur), View(r.m)}]
        /\ UNCHANGED th

ACrash ==
    \E c \in TranCalls :
        /\ Alive /\ gh.nops < MaxOps
        /\ ACrashIn(c, Invoke("Call", <<Cur, c[1], KeyOf(c[2]), ValOf(c[3])>>))

\* a new process opens the database as a writer
ARecover ==
    LET Returned(M) ==
            /\ Store(M)
            /\ gh' = [gh EXCEPT !.last = [DoneM("recover", M) EXCEPT
                                             !.path = gh.last.path, !.val = gh.last.val]]
    IN /\ gh.last.kind = "crash"
       /\ Returned(Invoke("open", <<Cur, AutoMode>>))
       /\ UNCHANGED th

NextAuto == AMutate \/ ACrash \/ ARecover

SpecAuto == InitAuto /\ [][NextAuto]_vars

\* C16: in the auto transaction mode, with no transaction open, every set and
\* remove runs in a transaction of its own, so that when the process dies at
\* any point of the call and the database is opened again, the table holds
\* either what it held before the call or what it holds after the call:
\* the mutation is there entirely or not at all, and every other record is as
\* it was.
C16_AutoTransactionAtomic ==
    [][gh'.last.kind = "recover" => (gh'.last.ok /\ View(Prime) \in gh.abs)]_vars

\* the same for every death of the process but the one in
\* File::begin_transaction between the write of the magic data of the WAL and
\* the write of the size of the file
AutoAtomicButHeader ==
    [][(gh'.last.kind = "recover" /\ ~(disk.wal.magic /\ disk.wal.osiz = 0))
          => (gh'.last.ok /\ View(Prime) \in gh.abs)]_vars

(***************************************************************************)
(* SpecLock: the threads begin and end transactions and call set and       *)
(* remove at the same time, on a database opened in the auto transaction   *)
(* mode.  A call of begin_transaction, begin_transaction_try or            *)
(* end_transaction holds mlock_ as a writer from its first statement to    *)
(* its last and is one step; begin_transaction sleeps and tries again      *)
(* while a transaction is open.                                            *)
(***************************************************************************)
MaxLockOps == 2

\* a round of begin_transaction that always finds a transaction open
begin_transaction_round_busy(M, hard) == [again |-> TRUE, m |-> M]

\* HashDB::begin_transaction, one round of its loop: [again, m]
begin_transaction_round(M, hard) ==
    IF M.db.omode # {} /\ M.db.writer_ /\ M.db.tran_ THEN [again |-> TRUE, m |-> M]
    ELSE [again |-> FALSE,
          m |-> IF M.db.omode = {} THEN set_error(M, "INVALID")
                ELSE IF ~M.db.writer_ THEN set_error(M, "NOPERM")
                ELSE LET Begun(M1) == IF ~M1.ok THEN M1 ELSE [M1 EXCEPT !.db.tran_ = TRUE]
                     IN Begun(Invoke("begin_transaction_impl", <<[M EXCEPT !.db.trhard_ = hard]>>))]

\* the calls on transactions: <<name, commit>>
LockTranOps == {<<"begin", TRUE>>, <<"try", TRUE>>, <<"end", TRUE>>, <<"end", FALSE>>}
LockCalls == {<<"set", k, 2>> : k \in ConcKeys} \cup {<<"remove", k, 1>> : k \in ConcKeys}

\* the step of the thread in a call on transactions, mlock_ being free
TranStep(M, cx) ==
    LET Back(M1) == [m |-> [M1 EXCEPT !.ok = TRUE, !.err = "SUCCESS"],
                     c |-> [cx EXCEPT !.pc = "done", !.ok = M1.ok, !.err = M1.err]]
        Round(r) == IF r.again THEN [m |-> M, c |-> [cx EXCEPT !.pc = "tb_sleep"]]
                    ELSE Back(r.m)
    IN CASE cx.pc = "tb_sleep" -> [m |-> M, c |-> [cx EXCEPT !.pc = "tb_lock"]]
         [] cx.op = "begin" -> Round(begin_transaction_round(M, FALSE))
         [] cx.op = "try" -> Back(Invoke("begin_transaction_try", <<M, FALSE>>))
         [] OTHER -> Back(Invoke("end_transaction", <<M, cx.vok>>))

LockFresh(o) ==
    Load(Invoke("open", <<NewMachine(Tune(o)), AutoMode>>), Filled \o <<<<"set", NumKeys + 1, 2>>>>)

\* the databases the runs start from: with no transaction open, and with a
\* transaction open in which a record has been set
LockStarts ==
    {<<LockFresh(TSMALL), 0>>,
     <<Invoke("Call", <<Invoke("begin_transaction_try", <<LockFresh(TSMALL + TLINEAR), FALSE>>),
                        "set", KeyOf(1), ValOf(3)>>).m, 1>>}

\* gh.muts counts the transactions begun and not ended
InitLock ==
    /\ \E s \in LockStarts :
          /\ db = s[1].db /\ core = s[1].core /\ disk = s[1].disk /\ lk = s[1].lk
          /\ gh = [Ghost0 EXCEPT !.muts = s[2]]
    /\ th = IdleThreads

\* the thread t calls set or remove
LStartCall(t) ==
    \E c \in LockCalls :
        /\ gh.nops < MaxLockOps /\ th[t].pc = "done"
        /\ th' = [th EXCEPT ![t] = NewCall(c[1], KeyOf(c[2]), ValOf(c[3]))]
        /\ gh' = [gh EXCEPT !.nops = @ + 1]
        /\ UNCHANGED <<db, core, disk, lk>>

\* the thread t calls begin_transaction, begin_transaction_try or
\* end_transaction
LStartTran(t) ==
    \E c \in LockTranOps :
        /\ gh.nops < MaxLockOps /\ th[t].pc = "done"
        /\ th' = [th EXCEPT ![t] = [NewCall(c[1], <<>>, <<>>) EXCEPT !.pc = "tb_lock",
                                                                   !.vok = c[2]]]
        /\ gh' = [gh EXCEPT !.nops = @ + 1]
        /\ UNCHANGED <<db, core, disk, lk>>

\* the thread t takes the next step of its call of set or remove
LStep(t) ==
    LET Stepped(r) == Store(r.m) /\ th' = [th EXCEPT ![t] = r.c]
    IN /\ th[t].pc \notin {"done", "tb_lock", "tb_sleep"} /\ AcceptEnabled(Cur, th[t], t)
       /\ Stepped(Invoke("AcceptStep", <<Cur, th[t], t>>))
       /\ UNCHANGED gh

\* the thread t takes the step of its call on transactions
LTran(t) ==
    LET Opened(c) == IF ~(c.pc = "done" /\ c.ok) THEN 0
                     ELSE IF c.op = "end" THEN 0 - 1 ELSE 1
        Stepped(r) ==
            /\ Store(r.m) /\ th' = [th EXCEPT ![t] = r.c]
            /\ gh' = [gh EXCEPT !.muts = @ + Opened(r.c)]
    IN /\ th[t].pc \in {"tb_lock", "tb_sleep"}
       /\ th[t].pc = "tb_lock" => CanLockWriter(lk.mlock)
       /\ Stepped(TranStep(Cur, th[t]))

NextLock == \E t \in Threads : LStartCall(t) \/ LStartTran(t) \/ LStep(t) \/ LTran(t)

SpecLock == InitLock /\ [][NextLock]_vars

\* the thread t is where begin_transaction (op "begin") or
\* begin_transaction_try (op "try") takes mlock_, and takes the step
AtBegin(t, op) == th[t].op = op /\ th[t].pc = "tb_lock" /\ th'[t] # th[t]

SameTable == db' = db /\ core' = core /\ disk' = disk

\* C6: at most one transaction is open at a time.  While one is open,
\* begin_transaction does not return (it sleeps and tries again) and
\* begin_transaction_try fails at once with LOGIC, and neither changes the
\* open transaction, the table or the files.
C6_OneTransaction ==
    [][/\ gh'.muts <= 1
       /\ (gh'.muts = 1) = db'.tran_
       /\ \A t \in Threads :
             /\ (AtBegin(t, "try") /\ db.tran_)
                   => (/\ th'[t].pc = "done" /\ ~th'[t].ok /\ th'[t].err = "LOGIC"
                       /\ SameTable)
             /\ (AtBegin(t, "begin") /\ db.tran_)
                   => (th'[t].pc = "tb_sleep" /\ SameTable)]_vars

\* a transaction with a write in it is open, begin_transaction_try of one
\* thread has failed with LOGIC and begin_transaction of the other is asleep
C6_Witness ==
    /\ db.tran_ /\ gh.muts = 1 /\ disk.wal.msgs # <<>>
    /\ \E t \in Threads : th[t].op = "try" /\ th[t].pc = "done" /\ th[t].err = "LOGIC"
    /\ \E t \in Threads : th[t].op = "begin" /\ th[t].pc = "tb_sleep"

\* the thread t takes the step that calls File::begin_transaction: in
\* begin_auto_transaction, or in begin_transaction_impl with success
FileBegins(t) ==
    \/ th[t].pc = "at_begin" /\ th'[t].pc # "at_begin"
    \/ th[t].pc = "tb_lock" /\ th[t].op \in {"begin", "try"}
          /\ th'[t].pc = "done" /\ th'[t].ok

InAuto(c) == {t \in Threads : c[t].atran}

\* C17: File::begin_transaction is never called while a transaction of the
\* File is open, be it the transaction of begin_transaction or the one of a
\* single mutation, and no two mutations are in transactions of their own at
\* the same time.
C17_OneFileTransaction ==
    [][/\ \A t \in Threads : FileBegins(t) => (~core.tran /\ core'.tran)
       /\ Cardinality(InAuto(th')) <= 1
       /\ InAuto(th') # {} => ~db'.tran_
       /\ core'.tran = (db'.tran_ \/ InAuto(th') # {})]_vars

\* one thread is in the transaction of its mutation and has written, the
\* other one waits for atlock_ to begin its own
C17_Witness ==
    /\ core.tran /\ ~db.tran_ /\ Len(disk.wal.msgs) >= 2
    /\ \E t \in Threads : th[t].atran /\ lk.atlock = t
    /\ \E t \in Threads : th[t].pc = "at_lock"

(***************************************************************************)
(* SpecIter: one thread that mutates the database and passes over it with  *)
(* iterate.                                                                *)
(***************************************************************************)
MaxIterOps == 2

\* the visitors of the passes: for each key "NOP", "REMOVE", a value that
\* fits in the place of any record or one that fits in none
Decisions == {[act |-> "NOP", vbuf |-> <<>>], [act |-> "REMOVE", vbuf |-> <<>>],
              [act |-> "VALUE", vbuf |-> <<>> \o ValOf(1)],
              [act |-> "VALUE", vbuf |-> <<>> \o ValOf(3)]}
Visitors == [{KeyOf(k) : k \in Keys} -> Decisions]

\* the databases the passes start from: the filled ones, and one where a
\* large free block lies between two records
Holed == <<<<"set", 1, 2>>, <<"set", 2, 3>>, <<"set", 3, 2>>, <<"remove", 2, 1>>>>
IterStarts == {Load(Fresh(o), p) : o \in TuneOpts, p \in (Preloads \ {<<>>}) \cup {Holed}}

InitIter ==
    /\ \E M \in IterStarts : db = M.db /\ core = M.core /\ disk = M.disk /\ lk = M.lk
    /\ th = IdleThreads
    /\ gh = Ghost0

IMutate ==
    \E c \in TranCalls :
        LET Returned(r) == Store(r.m) /\ gh' = Record(gh, c[1], c[2], c[3], r.c)
        IN /\ gh.nops < MaxIterOps
           /\ Returned(Invoke("Call", <<Cur, c[1], KeyOf(c[2]), ValOf(c[3])>>))
           /\ UNCHANGED th

\* the history after iterate: out is the sequence of the keys visited, abs
\* the visitor, snap the view when the pass began and path "skipped" when a
\* free block lay in the record area then
IIterate ==
    \E vis \in Visitors :
        LET Returned(r) ==
                /\ Store([r.m EXCEPT !.ok = TRUE, !.err = "SUCCESS"])
                /\ gh' = [gh EXCEPT !.nops = @ + 1,
                                    !.last = [DoneM("iterate", r.m) EXCEPT
                                                 !.out = r.visits,
                                                 !.path = IF Cur.db.fbp_ # {} THEN "skipped"
                                                          ELSE "none"],
                                    !.abs = vis,
                                    !.snap = View(Cur)]
        IN /\ gh.nops < MaxIterOps
           /\ Returned(Invoke("iterate", <<Cur, vis, TRUE>>))
           /\ UNCHANGED th

NextIter == IMutate \/ IIterate

SpecIter == InitIter /\ [][NextIter]_vars

\* the keys of the records of a view
Live(view) == {KeyOf(k) : k \in {j \in Keys : view.vals[j].ok}}

\* what the visitor vis makes of a view
Visited(view, vis) ==
    LET gone == {k \in Keys : view.vals[k].ok /\ vis[KeyOf(k)].act = "REMOVE"}
    IN [count |-> view.count - Cardinality(gone),
        vals |-> [k \in Keys |->
                     IF ~view.vals[k].ok \/ vis[KeyOf(k)].act = "NOP" THEN view.vals[k]
                     ELSE IF k \in gone THEN [ok |-> FALSE, err |-> "NOREC", out |-> <<>>]
                     ELSE [ok |-> TRUE, err |-> "SUCCESS", out |-> vis[KeyOf(k)].vbuf]]]

\* C12: a pass of iterate visits every record that was there when it began
\* exactly once and nothing else, count() visits in all, whatever the
\* visitor removes, rewrites in place or relocates meanwhile, and leaves the
\* database as the visitor decided
C12_IterateVisitsOnce ==
    gh.last.kind = "iterate" =>
        /\ gh.last.ok
        /\ Len(gh.last.out) = gh.snap.count
        /\ {gh.last.out[i] : i \in 1..Len(gh.last.out)} = Live(gh.snap)
        /\ \A i, j \in 1..Len(gh.last.out) : gh.last.out[i] = gh.last.out[j] => i = j
        /\ View(Cur) = Visited(gh.snap, gh.abs)

\* a pass over two records and the free blocks of the record area that
\* removed one record and relocated the other
C12_Witness ==
    /\ gh.last.kind = "iterate" /\ gh.last.ok
    /\ gh.last.path = "skipped"
    /\ Len(gh.last.out) = 2
    /\ \E a, b \in Live(gh.snap) :
          /\ gh.abs[a].act = "REMOVE" /\ gh.abs[b].vbuf = ValOf(3)
          /\ Len(gh.snap.vals[b[1] - 96].out) < Len(ValOf(3))
    /\ count(Cur) = 1

(***************************************************************************)
(* SpecCur: one thread with cursors on a database that it mutates,         *)
(* defragments, clears and runs transactions on.                           *)
(***************************************************************************)
NumCursors == 2
MaxCurOps == 2

Cursors == 1..NumCursors

\* the cursors of the runs: the first one at the first record, the others
\* on the record of the key k
RECURSIVE Placed(_, _, _)
Placed(M, i, k) ==
    IF i > NumCursors THEN M
    ELSE Placed(IF i = 1 THEN Invoke("Cursor_jump", <<Invoke("Cursor", <<M>>), i>>)
                ELSE Invoke("Cursor_jump_key", <<Invoke("Cursor", <<M>>), i, KeyOf(k)>>),
                i + 1, k)

\* the databases of the runs, with the cursors placed and then possibly the
\* record of one key removed
CurStarts ==
    LET Cut(M, r) == IF r = 0 THEN M ELSE Invoke("Call", <<M, "remove", KeyOf(r), <<>>>>).m
    IN {Succeed(Cut(Placed(M, 1, k), r)) : M \in IterStarts, k \in Keys, r \in {0} \cup Keys}

InitCur ==
    /\ \E M \in CurStarts : db = M.db /\ core = M.core /\ disk = M.disk /\ lk = M.lk
    /\ th = IdleThreads
    /\ gh = Ghost0

\* the history after a call that leaves the machine M
CurDone(kind, M) ==
    /\ Store([M EXCEPT !.ok = TRUE, !.err = "SUCCESS"])
    /\ gh' = [gh EXCEPT !.nops = @ + 1, !.last = DoneM(kind, M),
                        !.snap = [off |-> [i \in Cursors |-> db.curs_[i].off],
                                  size |-> db.lsiz_]]
    /\ UNCHANGED th

UJump == \E i \in Cursors : gh.nops < MaxCurOps /\ CurDone("jump", Invoke("Cursor_jump", <<Cur, i>>))

UJumpKey ==
    \E i \in Cursors, k \in Keys :
        gh.nops < MaxCurOps /\ CurDone("jump_key", Invoke("Cursor_jump_key", <<Cur, i, KeyOf(k)>>))

UStep == \E i \in Cursors : gh.nops < MaxCurOps /\ CurDone("step", Invoke("Cursor_step", <<Cur, i>>))

UAccept ==
    \E i \in Cursors, dec \in Decisions, step \in BOOLEAN :
        gh.nops < MaxCurOps
          /\ CurDone("accept_" \o dec.act, Invoke("Cursor_accept", <<Cur, i, dec, TRUE, step>>))

UMutate ==
    \E c \in TranCalls :
        LET Returned(r) == CurDone(r.c.path, IF r.c.ok THEN r.m ELSE set_error(r.m, r.c.err))
        IN gh.nops < MaxCurOps /\ Returned(Invoke("Call", <<Cur, c[1], KeyOf(c[2]), ValOf(c[3])>>))

UDefrag ==
    \E step \in 0..MaxStep : gh.nops < MaxCurOps /\ CurDone("defrag", Invoke("defrag", <<Cur, step>>))

UClear == gh.nops < MaxCurOps /\ CurDone("clear", Invoke("clear", <<Cur>>))

UBegin == gh.nops < MaxCurOps /\ CurDone("begin", Invoke("begin_transaction_try", <<Cur, FALSE>>))

UEnd ==
    \E commit \in BOOLEAN :
        gh.nops < MaxCurOps
          /\ CurDone(IF commit THEN "commit" ELSE "abort", Invoke("end_transaction", <<Cur, commit>>))

NextCur ==
    UJump \/ UJumpKey \/ UStep \/ UAccept \/ UMutate \/ UDefrag \/ UClear \/ UBegin \/ UEnd

SpecCur == InitCur /\ [][NextCur]_vars

\* the cursor c is exhausted, or stands at the start of a block of the
\* record area below its end
Standing(c, area) ==
    \/ c.off = 0
    \/ /\ c.off >= db.roff_ /\ c.off < db.lsiz_ /\ c.off < c.end
       /\ \E b \in area : b[1] = c.off /\ b[2] # "bad"

\* C20: after every operation, each registered cursor is exhausted or
\* stands at the start of a block inside the record area, below the end of
\* its range
C20_NoDanglingCursor ==
    LET Held(area) == \A i \in 1..Len(db.curs_) : Standing(db.curs_[i], area)
    IN Held(AreaBlocks(Cur, db.roff_))

\* a pass of defrag has shortened the file under a cursor that was standing
\* in it and still stands on a block, at another offset
C20_Witness ==
    /\ gh.last.kind = "defrag" /\ gh.last.ok
    /\ db.lsiz_ < gh.snap.size
    /\ \E i \in Cursors :
          /\ db.curs_[i].off > 0
          /\ gh.snap.off[i] > 0
          /\ db.curs_[i].off # gh.snap.off[i]

(***************************************************************************)
(* SpecWal: a transaction whose WAL file is damaged before it is replayed, *)
(* by the abort of the transaction or by the next open after a crash.      *)
(***************************************************************************)
MaxWalOps == 2

\* what can be wrong with a WAL file: its magic data, the magic byte of its
\* last message, or the length of its last message
WalDamages == {"magic", "msgmagic", "short"}

\* the databases of the runs: a transaction is open and has logged a write
WalStarts ==
    {Succeed(Invoke("Call", <<Invoke("begin_transaction_try", <<M, FALSE>>),
                              "set", KeyOf(1), ValOf(v)>>).m) : M \in TranStarts, v \in {2, 3}}

InitWal ==
    /\ \E M \in WalStarts : db = M.db /\ core = M.core /\ disk = M.disk /\ lk = M.lk
    /\ th = IdleThreads
    /\ gh = Ghost0

WMutate ==
    \E c \in TranCalls :
        LET Returned(r) == Store(r.m) /\ gh' = Record(gh, c[1], c[2], c[3], r.c)
        IN /\ Alive /\ db.tran_ /\ disk.wal.bad = "none" /\ gh.nops < MaxWalOps
           /\ Returned(Invoke("Call", <<Cur, c[1], KeyOf(c[2]), ValOf(c[3])>>))
           /\ UNCHANGED th

\* the WAL file is damaged on the device
WDamage ==
    \E kind \in WalDamages :
        /\ Alive /\ db.tran_ /\ disk.wal.magic /\ disk.wal.bad = "none"
        /\ kind = "magic" \/ disk.wal.msgs # <<>>
        /\ disk' = [disk EXCEPT !.wal.bad = kind,
                                !.wal.msgs = IF kind = "magic" THEN @
                                             ELSE SubSeq(@, 1, Len(@) - 1)]
        /\ gh' = [gh EXCEPT !.last = [NoOp EXCEPT !.kind = "damage", !.path = kind]]
        /\ UNCHANGED <<db, core, lk, th>>

\* end_transaction(false); path tells what was wrong with the WAL
WAbort ==
    LET Returned(M) ==
            /\ Store([M EXCEPT !.ok = TRUE, !.err = "SUCCESS"])
            /\ gh' = [gh EXCEPT !.last = [DoneM("abort", M) EXCEPT !.path = disk.wal.bad]]
    IN /\ Alive /\ db.tran_
       /\ Returned(Invoke("end_transaction", <<Cur, FALSE>>))
       /\ UNCHANGED th

\* the process dies in the open transaction: its memory is lost
WCrash ==
    /\ Alive /\ db.tran_
    /\ db' = NewDB(Tune(TSMALL)) /\ core' = NewCore /\ lk' = NoLocks
    /\ gh' = [gh EXCEPT !.last = [NoOp EXCEPT !.kind = "crash", !.path = disk.wal.bad]]
    /\ UNCHANGED <<disk, th>>

\* a new process opens the database as a writer
WRecover ==
    LET Returned(M) ==
            /\ Store([M EXCEPT !.ok = TRUE, !.err = "SUCCESS"])
            /\ gh' = [gh EXCEPT !.last = [DoneM("recover", M) EXCEPT !.path = gh.last.path]]
    IN /\ gh.last.kind = "crash"
       /\ Returned(Invoke("open", <<Cur, {"OWRITER", "OCREATE"}>>))
       /\ UNCHANGED th

NextWal == WMutate \/ WDamage \/ WAbort \/ WCrash \/ WRecover

SpecWal == InitWal /\ [][NextWal]_vars

\* C21: a replay of the WAL, by the abort of the transaction or by the open
\* after a crash, that meets wrong magic data or a truncated message fails
\* with the error BROKEN
C21_BadWalIsBroken ==
    (gh.last.kind \in {"abort", "recover"} /\ gh.last.path # "none")
        => (~gh.last.ok /\ gh.last.err = "BROKEN")

\* what the abort does report: the failure of File::end_transaction, as a
\* SYSTEM error
BadWalAbortFails ==
    (gh.last.kind = "abort" /\ gh.last.path # "none")
        => (~gh.last.ok /\ gh.last.err = "SYSTEM")

\* the open after a crash reports success whatever the replay has met
BadWalOpenSucceeds ==
    (gh.last.kind = "recover" /\ gh.last.path \in {"msgmagic", "short"}) => gh.last.ok

(***************************************************************************)
(* SpecSalvage: a writer without transactions dies, in a call or between   *)
(* two calls, and the next writer opens the file that it has left.         *)
(***************************************************************************)
MaxSalvageOps == 2

InitSalvage ==
    /\ \E M \in {Load(Fresh(o), p) : o \in TuneOpts, p \in Preloads} :
          db = M.db /\ core = M.core /\ disk = M.disk /\ lk = M.lk
    /\ th = IdleThreads
    /\ gh = Ghost0

SMutate ==
    \E c \in TranCalls :
        LET Returned(r) == Store(r.m) /\ gh' = Record(gh, c[1], c[2], c[3], r.c)
        IN /\ Alive /\ gh.nops < MaxSalvageOps
           /\ Returned(Invoke("Call", <<Cur, c[1], KeyOf(c[2]), ValOf(c[3])>>))
           /\ UNCHANGED th

\* the process dies: its memory is lost, the file is as the last write of
\* the call going on has left it, or as it is when no call is going on
SCrashAt(d, name) ==
    /\ db' = NewDB(Tune(TSMALL)) /\ core' = NewCore /\ lk' = NoLocks
    /\ disk' = d
    /\ gh' = [gh EXCEPT !.nops = MaxSalvageOps,
                        !.last = [NoOp EXCEPT !.kind = "crash", !.path = name],
                        !.snap = View(Cur)]
    /\ UNCHANGED th

SCrash ==
    /\ Alive
    /\ \/ SCrashAt(disk, "none")
       \/ \E c \in TranCalls :
             LET Dying(steps) == \E i \in 1..Len(steps) : SCrashAt(steps[i], c[1])
             IN gh.nops < MaxSalvageOps
                  /\ Dying(Invoke("Call", <<Cur, c[1], KeyOf(c[2]), ValOf(c[3])>>).m.steps)

\* a new process opens the database as a writer
SRecover ==
    LET Returned(M) ==
            /\ Store([M EXCEPT !.ok = TRUE, !.err = "SUCCESS"])
            /\ gh' = [gh EXCEPT !.last = [DoneM("recover", M) EXCEPT !.path = gh.last.path,
                                             !.val = IF M.db.reorg_ THEN 1 ELSE 0]]
    IN /\ gh.last.kind = "crash"
       /\ Returned(Invoke("open", <<Cur, {"OWRITER"}>>))
       /\ UNCHANGED th

NextSalvage == SMutate \/ SCrash \/ SRecover

SpecSalvage == InitSalvage /\ [][NextSalvage]_vars

\* C22: a call that has recorded an error while it ran does not return
\* success
C22_NoSilentError == gh.last.ok => gh.last.err = "SUCCESS"

\* what the open after a crash returns when it has rebuilt the file: success,
\* with the records of the file as they were or as the call going on would
\* have left them, whatever copy_records has met
SalvageSucceeds ==
    (gh.last.kind = "recover" /\ gh.last.val = 1) => gh.last.ok

\* ---------------------------------------------------------------------
\* The fatal flag and the repair pass of open: a writer with an open
\* transaction works on, the WAL file may be damaged on the device, the
\* transaction is aborted, the database is closed or its process dies, and
\* a writer opens the file again.  gh.abs tells whether set_error has been
\* called with BROKEN or SYSTEM since the file was last rebuilt.
\* ---------------------------------------------------------------------
MaxFatalOps == 2

\* set_error has raised the fatal flag in the call that gave M
Fatal(err) == err \in {"BROKEN", "SYSTEM"}

InitFatal ==
    /\ \E M \in WalStarts : db = M.db /\ core = M.core /\ disk = M.disk /\ lk = M.lk
    /\ th = IdleThreads
    /\ gh = [Ghost0 EXCEPT !.abs = FALSE]

FMutate ==
    \E c \in TranCalls :
        LET Returned(r) ==
                /\ Store(r.m)
                /\ gh' = [Record(gh, c[1], c[2], c[3], r.c) EXCEPT !.abs = @ \/ Fatal(r.c.err)]
        IN /\ db.omode # {} /\ disk.wal.bad = "none" /\ gh.nops < MaxFatalOps
           /\ Returned(Invoke("Call", <<Cur, c[1], KeyOf(c[2]), ValOf(c[3])>>))
           /\ UNCHANGED th

\* the WAL file is damaged on the device
FDamage ==
    \E kind \in WalDamages :
        /\ db.omode # {} /\ db.tran_ /\ disk.wal.magic /\ disk.wal.bad = "none"
        /\ kind = "magic" \/ disk.wal.msgs # <<>>
        /\ disk' = [disk EXCEPT !.wal.bad = kind,
                                !.wal.msgs = IF kind = "magic" THEN @
                                             ELSE SubSeq(@, 1, Len(@) - 1)]
        /\ gh' = [gh EXCEPT !.last = [NoOp EXCEPT !.kind = "damage", !.path = kind]]
        /\ UNCHANGED <<db, core, lk, th>>

\* end_transaction(false)
FAbort ==
    LET Returned(M) ==
            /\ Store([M EXCEPT !.ok = TRUE, !.err = "SUCCESS"])
            /\ gh' = [gh EXCEPT !.last = DoneM("abort", M), !.abs = @ \/ Fatal(M.err)]
    IN /\ db.omode # {} /\ db.tran_
       /\ Returned(Invoke("end_transaction", <<Cur, FALSE>>))
       /\ UNCHANGED th

\* close
FClose ==
    LET Returned(M) ==
            /\ Store([M EXCEPT !.ok = TRUE, !.err = "SUCCESS"])
            /\ gh' = [gh EXCEPT !.last = DoneM("close", M), !.abs = @ \/ Fatal(M.err)]
    IN /\ db.omode # {}
       /\ Returned(Invoke("close", <<Cur>>))
       /\ UNCHANGED th

\* the process dies: its memory is lost
FCrash ==
    /\ db.omode # {}
    /\ db' = NewDB(Tune(TSMALL)) /\ core' = NewCore /\ lk' = NoLocks
    /\ gh' = [gh EXCEPT !.last = [NoOp EXCEPT !.kind = "crash"]]
    /\ UNCHANGED <<disk, th>>

\* a process opens the file as a writer; path tells whether the fatal flag
\* had been raised before, val whether open has rebuilt the file
FOpen ==
    LET Returned(M) ==
            /\ Store([M EXCEPT !.ok = TRUE, !.err = "SUCCESS"])
            /\ gh' = [gh EXCEPT !.nops = @ + 1,
                                !.last = [DoneM("open", M) EXCEPT
                                             !.path = IF gh.abs THEN "fatal" ELSE "clean",
                                             !.val = IF M.db.reorg_ THEN 1 ELSE 0],
                                !.abs = (@ /\ ~M.db.reorg_) \/ Fatal(M.err)]
    IN /\ db.omode = {} /\ gh.nops < MaxFatalOps
       /\ Returned(Invoke("open", <<Cur, {"OWRITER"}>>))
       /\ UNCHANGED th

NextFatal == FMutate \/ FDamage \/ FAbort \/ FClose \/ FCrash \/ FOpen

SpecFatal == InitFatal /\ [][NextFatal]_vars

\* C23: a writer-mode open that succeeds after set_error has raised the
\* fatal flag for a BROKEN or SYSTEM error rebuilds the file
C23_FatalForcesRepair ==
    gh.last.kind = "open" /\ gh.last.path = "fatal" /\ gh.last.ok => gh.last.val = 1

\* ---------------------------------------------------------------------
\* Calls on a handle in every state it can be in: never opened, closed
\* again, open as a reader, open as a writer, and with a transaction open.
\* gh.own is the error the call must fail with by the state of the handle
\* it was made in, "none" when that state allows the call.
\* ---------------------------------------------------------------------
MaxPreOps == 2

PreStarts ==
    LET W == Load(Fresh(TSMALL), Filled)
        C == Invoke("close", <<W>>)
    IN {NewMachine(Tune(TSMALL)), C, W,
        Succeed(Invoke("open", <<C, {"OREADER"}>>)),
        Succeed(Invoke("begin_transaction_try", <<W, FALSE>>))}

InitPre ==
    /\ \E M \in PreStarts : db = M.db /\ core = M.core /\ disk = M.disk /\ lk = M.lk
    /\ th = IdleThreads
    /\ gh = [Ghost0 EXCEPT !.own = "none"]

\* the error by the state of the handle: kind is the call, writable
\* whether it is a mutating one
Unmet(kind, writable) ==
    IF kind = "open" THEN (IF db.omode # {} THEN "INVALID" ELSE "none")
    ELSE IF db.omode = {} THEN "INVALID"
    ELSE IF kind = "end" THEN (IF ~db.tran_ THEN "INVALID" ELSE "none")
    ELSE IF writable /\ ~db.writer_ THEN "NOPERM"
    ELSE "none"

PreDone(kind, writable, M) ==
    /\ Store(M)
    /\ gh' = [gh EXCEPT !.nops = @ + 1, !.last = DoneM(kind, M), !.own = Unmet(kind, writable)]
    /\ UNCHANGED th

HCall ==
    \E c \in TranCalls \cup {<<"get", k, 1>> : k \in Keys} :
        LET Returned(r) ==
                /\ Store(r.m)
                /\ gh' = [Record(gh, c[1], c[2], c[3], r.c) EXCEPT !.own = Unmet("accept", Writable(c[1]))]
        IN /\ gh.nops < MaxPreOps
           /\ Returned(Invoke("Call", <<Cur, c[1], KeyOf(c[2]), ValOf(c[3])>>))
           /\ UNCHANGED th

HOpen ==
    \E mode \in {{"OWRITER"}, {"OREADER"}, {"OWRITER", "OCREATE"}} :
        /\ gh.nops < MaxPreOps
        /\ PreDone("open", FALSE, Invoke("open", <<Cur, mode>>))

HClose == gh.nops < MaxPreOps /\ PreDone("close", FALSE, Invoke("close", <<Cur>>))

HBegin ==
    \E hard \in BOOLEAN :
        /\ gh.nops < MaxPreOps
        /\ PreDone("begin", TRUE, Invoke("begin_transaction_try", <<Cur, hard>>))

HEnd ==
    \E commit \in BOOLEAN :
        /\ gh.nops < MaxPreOps
        /\ PreDone("end", TRUE, Invoke("end_transaction", <<Cur, commit>>))

HClear == gh.nops < MaxPreOps /\ PreDone("clear", TRUE, Invoke("clear", <<Cur>>))

HDefrag ==
    \E step \in 0..1 :
        /\ gh.nops < MaxPreOps
        /\ PreDone("defrag", TRUE, Invoke("defrag", <<Cur, step>>))

HIterate ==
    \E writable \in BOOLEAN :
        /\ gh.nops < MaxPreOps
        /\ PreDone("iterate", writable,
                   Invoke("iterate", <<Cur, [b \in {KeyOf(k) : k \in Keys} |-> [act |-> "NOP", vbuf |-> <<>>]], writable>>).m)

NextPre == HCall \/ HOpen \/ HClose \/ HBegin \/ HEnd \/ HClear \/ HDefrag \/ HIterate

SpecPre == InitPre /\ [][NextPre]_vars

\* C24: a call made in a state of the handle that does not allow it fails
\* with INVALID (not open; open on an open handle; end_transaction with no
\* transaction) or NOPERM (a mutating call on a reader) and leaves the
\* handle, the file and the locks as they were
C24_UnmetPreconditionKeepsState ==
    [][gh'.nops # gh.nops /\ gh'.own # "none"
          => /\ ~gh'.last.ok /\ gh'.last.err = gh'.own
             /\ db' = db /\ core' = core /\ disk' = disk /\ lk' = lk]_vars

\* a set on a reader has failed with NOPERM, after a call on the closed
\* handle or another refused one
C24_Witness ==
    /\ gh.last.kind = "set" /\ gh.own = "NOPERM" /\ gh.last.err = "NOPERM"
    /\ gh.nops = MaxPreOps /\ db.omode = {"OREADER"}

\* ---------------------------------------------------------------------
\* The header: handles tuned with powers inside and outside their ranges
\* and with either type, opened, written to, closed and opened again; the
\* header of a closed file may be overwritten with a value out of range
\* (gh.own names the field), and the process may die.
\* ---------------------------------------------------------------------
MaxHeadOps == 3
\* the files the runs create begin their record area no further than this
MaxRoff == 32768

ApowArgs == {0 - 1, HDBMAXAPOW + 1}
FpowArgs == {0 - 1, 0, HDBMAXFPOW + 1}
TypeArgs == {0, TYPEHASH}
HeadFields == {"type", "apow", "fpow", "bnum", "count", "lsiz"}
HeadCalls == {<<"set", k, v>> : k \in 1..2, v \in {1, 3}} \cup {<<"remove", k, 1>> : k \in 1..2}

Tuned(apow, fpow, type) ==
    tune_type(tune_fbp(tune_alignment(NewMachine(Tune(TSMALL)), apow), fpow), type)

InitHead ==
    /\ \E M \in {Tuned(a, f, t) : a \in ApowArgs, f \in FpowArgs, t \in TypeArgs} \cup TranStarts :
          db = M.db /\ core = M.core /\ disk = M.disk /\ lk = M.lk
    /\ th = IdleThreads
    /\ gh = [Ghost0 EXCEPT !.own = "none"]

HeadDone(kind, M) ==
    /\ Store(M)
    /\ gh' = [gh EXCEPT !.nops = @ + 1, !.last = DoneM(kind, M)]
    /\ UNCHANGED th

GOpen ==
    \E mode \in {{"OWRITER", "OCREATE"}, {"OREADER"}} :
        /\ db.omode = {} /\ gh.nops < MaxHeadOps
        /\ calc_meta(Cur).db.roff_ <= MaxRoff
        /\ HeadDone("open", Invoke("open", <<Cur, mode>>))

GMutate ==
    \E c \in HeadCalls :
        LET Returned(r) == Store(r.m) /\ gh' = Record(gh, c[1], c[2], c[3], r.c)
        IN /\ db.omode # {} /\ gh.nops < MaxHeadOps
           /\ Returned(Invoke("Call", <<Cur, c[1], KeyOf(c[2]), ValOf(c[3])>>))
           /\ UNCHANGED th

GBegin ==
    /\ db.omode # {} /\ gh.nops < MaxHeadOps
    /\ HeadDone("begin", Invoke("begin_transaction_try", <<Cur, FALSE>>))

GEnd ==
    \E commit \in BOOLEAN :
        /\ db.omode # {} /\ db.tran_ /\ gh.nops < MaxHeadOps
        /\ HeadDone("end", Invoke("end_transaction", <<Cur, commit>>))

GClear == db.omode # {} /\ gh.nops < MaxHeadOps /\ HeadDone("clear", Invoke("clear", <<Cur>>))

GClose == db.omode # {} /\ gh.nops < MaxHeadOps /\ HeadDone("close", Invoke("close", <<Cur>>))

\* the process dies: its memory is lost
GCrash ==
    /\ db.omode # {} /\ gh.nops < MaxHeadOps
    /\ db' = NewDB(Tune(TSMALL)) /\ core' = NewCore /\ lk' = NoLocks
    /\ gh' = [gh EXCEPT !.nops = @ + 1, !.last = [NoOp EXCEPT !.kind = "crash"]]
    /\ UNCHANGED <<disk, th>>

\* a field of the header of the closed file gets a value out of its range
GCorrupt ==
    \E f \in HeadFields :
        LET bytes == CASE f = "type" -> <<0>>
                       [] f = "apow" -> <<HDBMAXAPOW + 1>>
                       [] f = "fpow" -> <<HDBMAXFPOW + 1>>
                       [] f = "bnum" -> writefixnum(0, 8)
                       [] f = "count" -> writefixnum(0 - 1, 8)
                       [] f = "lsiz" -> writefixnum(HDBHEADSIZ, 8)
            off == CASE f = "type" -> HDBMOFFTYPE
                     [] f = "apow" -> HDBMOFFAPOW
                     [] f = "fpow" -> HDBMOFFFPOW
                     [] f = "bnum" -> HDBMOFFBNUM
                     [] f = "count" -> HDBMOFFCOUNT
                     [] f = "lsiz" -> HDBMOFFSIZE
        IN /\ gh.last.kind = "close" /\ gh.last.ok /\ gh.own = "none"
           /\ Len(disk.data) >= HDBHEADSIZ
           /\ disk' = [disk EXCEPT !.data = PutBytes(@, off, bytes)]
           /\ gh' = [gh EXCEPT !.own = f]
           /\ UNCHANGED <<db, core, lk, th>>

NextHead == GOpen \/ GMutate \/ GBegin \/ GEnd \/ GClear \/ GClose \/ GCrash \/ GCorrupt

SpecHead == InitHead /\ [][NextHead]_vars

\* the header fields of the handle are in their ranges
HeadInRange ==
    /\ db.type_ # 0 /\ db.apow_ <= HDBMAXAPOW /\ db.fpow_ <= HDBMAXFPOW
    /\ db.bnum_ >= 1 /\ db.count_ >= 0 /\ db.lsiz_ >= db.roff_

\* C25: the header fields of an open database are in their ranges (type
\* not 0, alignment power at most 15, pool power at most 20, at least one
\* bucket, count not negative, logical size not before the record area)
\* whatever was done to it, tune_alignment and tune_fbp leave the powers
\* in their ranges, and open fails on a closed file whose header holds a
\* value out of range
C25_HeaderInRange ==
    /\ db.omode # {} => HeadInRange
    /\ gh.last.kind = "none" => db.apow_ <= HDBMAXAPOW /\ db.fpow_ <= HDBMAXFPOW
    /\ gh.last.kind = "open" /\ gh.own # "none" => ~gh.last.ok /\ gh.last.err = "BROKEN"

\* open has refused a file made with the highest alignment power whose
\* header says that the count is negative
C25_Witness ==
    /\ gh.last.kind = "open" /\ gh.own = "count" /\ ~gh.last.ok
    /\ db.count_ < 0 /\ db.apow_ = HDBMAXAPOW

\* ---------------------------------------------------------------------
\* A walk over the whole database: a cursor is placed with jump() and
\* accept is called with step = true until it fails; the visitor leaves
\* the record, replaces its value by a shorter or a longer one, or removes
\* it.  gh.snap is the set of the keys when the walk began, gh.abs the
\* keys the visitor has been given so far, in their order.
\* ---------------------------------------------------------------------
MaxWalkOps == 5

\* the databases of the walks, without and with defragmentation on the way
WalkStarts ==
    {Succeed(Invoke("Cursor_jump", <<Cursor([M EXCEPT !.db.dfunit_ = u]), 1>>)) :
        M \in IterStarts \cup {Fresh(TSMALL)}, u \in 0..1}

InitWalk ==
    /\ \E M \in WalkStarts : db = M.db /\ core = M.core /\ disk = M.disk /\ lk = M.lk
    /\ th = IdleThreads
    /\ gh = [Ghost0 EXCEPT !.snap = Live(View(Cur)), !.abs = <<>>]

KAccept ==
    \E dec \in Decisions :
        LET shown == step_impl(Cur, 1, 0)
            Returned(M) ==
                /\ Store([M EXCEPT !.ok = TRUE, !.err = "SUCCESS"])
                /\ gh' = [gh EXCEPT !.nops = @ + 1,
                                    !.last = DoneM("accept", M),
                                    !.abs = IF db.curs_[1].off >= 1 /\ shown.m.ok
                                            THEN Append(@, shown.rec.kbuf) ELSE @]
        IN /\ gh.last.ok /\ gh.nops < MaxWalkOps
           /\ Returned(Invoke("Cursor_accept", <<Cur, 1, dec, TRUE, TRUE>>))
           /\ UNCHANGED th

NextWalk == KAccept

SpecWalk == InitWalk /\ [][NextWalk]_vars

\* C26: in a walk from jump() with accept(step = true), whatever the
\* visitor does with the records, no record is shown twice, only records
\* of the database are shown, and accept fails only with NOREC and only
\* after every record has been shown
C26_WalkVisitsOnce ==
    /\ \A i, j \in 1..Len(gh.abs) : i # j => gh.abs[i] # gh.abs[j]
    /\ \A i \in 1..Len(gh.abs) : gh.abs[i] \in gh.snap
    /\ ~gh.last.ok => gh.last.err = "NOREC" /\ {gh.abs[i] : i \in 1..Len(gh.abs)} = gh.snap

\* a walk over three records has ended with NOREC after a record was
\* removed and the free block pool was in use
C26_Witness ==
    /\ ~gh.last.ok /\ gh.last.err = "NOREC" /\ Len(gh.abs) = 3
    /\ count(Cur) < 3 /\ db.fbp_ # {}

\* ---------------------------------------------------------------------
\* The trees of the buckets: five keys, four of them in one bucket, are
\* set in every order, so that the record a remove takes out is a leaf,
\* has one child, or has two with the record to promote at any depth.
\* ---------------------------------------------------------------------
MaxTreeOps == 2

TreeKeys == {1, 2, 3, 6, 8}
TreeOrders ==
    {s \in [1..Cardinality(TreeKeys) -> TreeKeys] :
        \A i, j \in DOMAIN s : i # j => s[i] # s[j]}
RECURSIVE Planted(_, _)
Planted(M, s) ==
    IF s = <<>> THEN M
    ELSE Planted(Invoke("Call", <<M, "set", KeyOf(s[1]), ValOf(s[1])>>).m, Tail(s))

InitTree ==
    /\ \E s \in TreeOrders :
          LET Started(M) == db = M.db /\ core = M.core /\ disk = M.disk /\ lk = M.lk
          IN Started(Planted(Fresh(TSMALL), s))
    /\ th = IdleThreads
    /\ gh = Ghost0

TreeDone(op, k, cx) ==
    gh' = [gh EXCEPT !.nops = @ + 1, !.last = Done(op, k, 0, cx)]

RRemove ==
    \E k \in TreeKeys :
        LET Returned(r) == Store(r.m) /\ TreeDone("remove", k, r.c)
        IN /\ gh.nops < MaxTreeOps
           /\ Returned(Invoke("Call", <<Cur, "remove", KeyOf(k), <<>>>>))
           /\ UNCHANGED th

RSet ==
    \E k \in TreeKeys, v \in {3} :
        LET Returned(r) == Store(r.m) /\ TreeDone("set", k, r.c)
        IN /\ gh.nops < MaxTreeOps
           /\ Returned(Invoke("Call", <<Cur, "set", KeyOf(k), ValOf(v)>>))
           /\ UNCHANGED th

NextTree == RRemove \/ RSet

SpecTree == InitTree /\ [][NextTree]_vars

\* the order of the trees: by pivot, then by key
Before(a, b) ==
    LET pa == fold_hash(hash_record(a))
        pb == fold_hash(hash_record(b))
    IN pa < pb \/ (pa = pb /\ compare_keys(a, b) < 0)

\* the keys of the records under the slot value off
RECURSIVE Under(_, _, _)
Under(M, off, fuel) ==
    LET Below(rec) ==
            IF ~rec.ok \/ rec.psiz = UINT16_MAX THEN {<<>>}
            ELSE {rec.kbuf} \cup Under(M, rec.left, fuel - 1) \cup Under(M, rec.right, fuel - 1)
    IN IF off <= 0 THEN {}
       ELSE IF fuel = 0 THEN {<<>>}
       ELSE Below(Invoke("read_record", <<M, off>>))

\* every record under off has the later keys under its left child and the
\* earlier ones under its right child
RECURSIVE Ordered(_, _, _)
Ordered(M, off, fuel) ==
    LET Below(rec) ==
            /\ rec.ok /\ rec.psiz # UINT16_MAX
            /\ \A x \in Under(M, rec.left, fuel - 1) : Before(rec.kbuf, x)
            /\ \A x \in Under(M, rec.right, fuel - 1) : Before(x, rec.kbuf)
            /\ Ordered(M, rec.left, fuel - 1) /\ Ordered(M, rec.right, fuel - 1)
    IN IF off <= 0 THEN TRUE
       ELSE IF fuel = 0 THEN FALSE
       ELSE Below(Invoke("read_record", <<M, off>>))

AllOrdered(M) ==
    \A bidx \in 0..(M.db.bnum_ - 1) : Ordered(M, get_bucket(M, bidx), ChainFuel(M))

\* where the key stands in its tree: [found, rec, entoff] of ChainSearch
Standpoint(M, kbuf) ==
    LET hash == hash_record(kbuf)
    IN ChainSearch(M, kbuf, fold_hash(hash), get_bucket(M, HashMod(hash, M.db.bnum_)), 0,
                   ChainFuel(M))

\* the value of the slot entoff of the bucket of kbuf
SlotValue(M, kbuf, entoff) ==
    IF entoff = 0 THEN get_bucket(M, HashMod(hash_record(kbuf), M.db.bnum_))
    ELSE ShiftLeft(readfixnum(Invoke("File_read_fast", <<M, entoff, M.db.width_>>).buf), M.db.align_)

\* C27: a remove of a key that is there leaves every tree in order, in
\* the place of the record the first of the later keys under it when it
\* had both children, every other key with the value it had, the key
\* itself absent, and the count one lower
C27_RemoveSplices ==
    [][gh'.last.kind = "remove" /\ Get(Cur, gh'.last.key) # Absent
          => LET kbuf == KeyOf(gh'.last.key)
                 at == Standpoint(Cur, kbuf)
                 later == Under(Cur, at.rec.left, ChainFuel(Cur))
                 next == CHOOSE x \in later : \A y \in later \ {x} : Before(x, y)
                 now == SlotValue(Prime, kbuf, at.entoff)
             IN /\ gh'.last.ok
                /\ AllOrdered(Prime)
                /\ at.rec.left > 0 /\ at.rec.right > 0
                      => now > 0 /\ Invoke("read_record", <<Prime, now>>).kbuf = next
                /\ Under(Prime, now, ChainFuel(Prime))
                      = Under(Cur, SlotValue(Cur, kbuf, at.entoff), ChainFuel(Cur)) \ {kbuf}
                /\ \A k \in TreeKeys \ {gh'.last.key} : Get(Prime, k) = Get(Cur, k)
                /\ Get(Prime, gh'.last.key) = Absent
                /\ count(Prime) = count(Cur) - 1]_vars

\* a record with both children was removed and the record promoted to its
\* place was not its left child: four records are left in order, three of
\* them in one tree
C27_Witness ==
    /\ gh.last.kind = "remove" /\ gh.last.ok /\ gh.last.key = 1 /\ gh.nops = 1
    /\ count(Cur) = 4 /\ AllOrdered(Cur)
    /\ LET top == Invoke("read_record", <<Cur, get_bucket(Cur, 0)>>)
       IN /\ top.kbuf = KeyOf(3) /\ top.left > 0 /\ top.right > 0
          /\ Invoke("read_record", <<Cur, top.left>>).kbuf = KeyOf(8)

\* ---------------------------------------------------------------------
\* The free block pool against the file: a writer, in the auto
\* transaction mode or not, sets and removes records, runs transactions,
\* defragments and synchronizes; it closes the database or its process
\* dies between two calls, and the database is opened again.
\* ---------------------------------------------------------------------
MaxFbpOps == 3

FbpModes == {{"OWRITER", "OCREATE"}, {"OWRITER", "OCREATE", "OAUTOTRAN"}}

FbpStarts ==
    {Load(Invoke("open", <<NewMachine(Tune(TSMALL)), mode>>), p) : mode \in FbpModes, p \in Preloads}

\* the runs begin after the writer has filled the database, and further
\* after a hard synchronize
InitFbp ==
    /\ \E M \in FbpStarts, synced \in BOOLEAN :
          LET Started(S) == db = S.db /\ core = S.core /\ disk = S.disk /\ lk = S.lk
          IN /\ Started(IF synced THEN Succeed(Invoke("synchronize", <<M, TRUE>>)) ELSE M)
             /\ gh = [Ghost0 EXCEPT !.abs = IF synced THEN "dumped" ELSE "empty"]
    /\ th = IdleThreads

\* gh.abs tells of the pool in the file: "empty" as open leaves it,
\* "dumped" once a hard synchronize has written the pool there, "stale"
\* when the process has died after that
FbpDone(kind, M) ==
    /\ Store([M EXCEPT !.ok = TRUE, !.err = "SUCCESS"])
    /\ gh' = [gh EXCEPT !.nops = @ + 1, !.last = DoneM(kind, M),
                        !.abs = IF kind = "sync_hard" /\ @ = "empty" THEN "dumped"
                                ELSE IF kind = "open" /\ @ = "dumped" THEN "empty"
                                ELSE @]
    /\ UNCHANGED th

BMutate ==
    \E c \in TranCalls :
        LET Returned(r) ==
                /\ Store(r.m)
                /\ gh' = [gh EXCEPT !.nops = @ + 1, !.last = Done(c[1], 0, 0, r.c)]
        IN /\ db.omode # {} /\ gh.nops < MaxFbpOps
           /\ Returned(Invoke("Call", <<Cur, c[1], KeyOf(c[2]), ValOf(c[3])>>))
           /\ UNCHANGED th

BSync ==
    \E hard \in BOOLEAN :
        /\ db.omode # {} /\ gh.nops < MaxFbpOps
        /\ FbpDone(IF hard THEN "sync_hard" ELSE "sync", Invoke("synchronize", <<Cur, hard>>))

BBegin ==
    /\ db.omode # {} /\ ~db.tran_ /\ gh.nops < MaxFbpOps
    /\ FbpDone("begin", Invoke("begin_transaction_try", <<Cur, FALSE>>))

BEnd ==
    \E commit \in BOOLEAN :
        /\ db.omode # {} /\ db.tran_ /\ gh.nops < MaxFbpOps
        /\ FbpDone(IF commit THEN "commit" ELSE "abort", Invoke("end_transaction", <<Cur, commit>>))

BDefrag ==
    \E step \in 0..1 :
        /\ db.omode # {} /\ gh.nops < MaxFbpOps
        /\ FbpDone("defrag", Invoke("defrag", <<Cur, step>>))

BClose == db.omode # {} /\ gh.nops < MaxFbpOps /\ FbpDone("close", Invoke("close", <<Cur>>))

\* the process dies between two calls: its memory is lost
BCrash ==
    /\ db.omode # {} /\ gh.nops < MaxFbpOps
    /\ db' = NewDB(Tune(TSMALL)) /\ core' = NewCore /\ lk' = NoLocks
    /\ gh' = [gh EXCEPT !.nops = @ + 1, !.last = [NoOp EXCEPT !.kind = "crash"],
                        !.abs = IF @ = "dumped" THEN "stale" ELSE @]
    /\ UNCHANGED <<disk, th>>

BOpen ==
    \E mode \in FbpModes :
        /\ db.omode = {} /\ gh.nops < MaxFbpOps
        /\ FbpDone("open", Invoke("open", <<Cur, mode>>))

NextFbp == BMutate \/ BSync \/ BBegin \/ BEnd \/ BDefrag \/ BClose \/ BCrash \/ BOpen

SpecFbp == InitFbp /\ [][NextFbp]_vars

\* every entry of the pool is a free block of the record area, of the size
\* the entry tells
PoolSound(M) ==
    LET area == AreaBlocks(M, M.db.roff_)
    IN \A fb \in M.db.fbp_ :
          /\ <<fb.off, "free">> \in area
          /\ Invoke("read_record", <<M, fb.off>>).rsiz = fb.rsiz

\* C28: in every state of an open database every entry of the free block
\* pool is a free block of the record area with the size of the entry, so
\* that no entry lies over a record or over another entry
C28_PoolSound == db.omode # {} => PoolSound(Cur)

\* the part that holds: the pool is sound as long as no process has died
\* with the pool of a hard synchronize in the file
PoolSoundUnlessStale == db.omode # {} /\ gh.abs # "stale" => PoolSound(Cur)

(***************************************************************************)
(* The replacement of a value: trees of three records in one bucket, after *)
(* which values are replaced by set and by iterate, and records removed.   *)
(***************************************************************************)
MaxSlotOps == 2

SlotKeys == {1, 2, 3}
SlotVals == {1, 2, 3}
SlotOrders == {<<1, 2, 3>>, <<2, 3, 1>>, <<3, 1, 2>>}
SlotFills == [SlotKeys -> {2, 3}]

\* the keys set in the order s with the values of fill
RECURSIVE Seeded(_, _, _)
Seeded(M, s, fill) ==
    IF s = <<>> THEN M
    ELSE Seeded(Invoke("Call", <<M, "set", KeyOf(s[1]), ValOf(fill[s[1]])>>).m, Tail(s), fill)

InitSlot ==
    /\ \E s \in SlotOrders, fill \in SlotFills :
          LET Started(M) == db = M.db /\ core = M.core /\ disk = M.disk /\ lk = M.lk
          IN Started(Seeded(Fresh(TSMALL), s, fill))
    /\ th = IdleThreads
    /\ gh = Ghost0

SlotDone(op, k, v, ok, err, path) ==
    gh' = [gh EXCEPT !.nops = @ + 1,
                     !.last = [NoOp EXCEPT !.kind = op, !.key = k, !.val = v, !.ok = ok,
                                           !.err = err, !.path = path]]

LSet ==
    \E k \in SlotKeys, v \in SlotVals :
        LET Returned(r) == Store(r.m) /\ SlotDone("set", k, v, r.c.ok, r.c.err, r.c.path)
        IN /\ gh.nops < MaxSlotOps
           /\ Returned(Invoke("Call", <<Cur, "set", KeyOf(k), ValOf(v)>>))
           /\ UNCHANGED th

LRemove ==
    \E k \in SlotKeys :
        LET Returned(r) == Store(r.m) /\ SlotDone("remove", k, 0, r.c.ok, r.c.err, r.c.path)
        IN /\ gh.nops < MaxSlotOps
           /\ Returned(Invoke("Call", <<Cur, "remove", KeyOf(k), <<>>>>))
           /\ UNCHANGED th

\* iterate with a visitor that replaces the value of one key and leaves
\* every other record as it is
LIterate ==
    \E k \in SlotKeys, v \in SlotVals :
        LET vis == [x \in {KeyOf(j) : j \in Keys} |->
                       IF x = KeyOf(k) THEN [act |-> "VALUE", vbuf |-> <<>> \o ValOf(v)]
                       ELSE [act |-> "NOP", vbuf |-> <<>>]]
            Returned(r) ==
                /\ Store([r.m EXCEPT !.ok = TRUE, !.err = "SUCCESS"])
                /\ SlotDone("iterate", k, v, r.m.ok, r.m.err, "none")
        IN /\ gh.nops < MaxSlotOps
           /\ Returned(Invoke("iterate", <<Cur, vis, TRUE>>))
           /\ UNCHANGED th

NextSlot == LSet \/ LRemove \/ LIterate

SpecSlot == InitSlot /\ [][NextSlot]_vars

\* the step has replaced the value of a key that was there
Replaced == gh'.nops # gh.nops /\ gh'.last.kind \in {"set", "iterate"}
               /\ Standpoint(Cur, KeyOf(gh'.last.key)).found

\* the size the record of the replaced key needs with its new value
Needed == calc_record_size(Cur, Len(KeyOf(gh'.last.key)), Len(ValOf(gh'.last.val)))

\* the block of the record area at off is a free block of rsiz bytes
FreeAt(M, off, rsiz) ==
    LET Is(rec) == rec.ok /\ rec.psiz = UINT16_MAX /\ rec.rsiz = rsiz
    IN <<off, "free">> \in AreaBlocks(M, M.db.roff_) /\ Is(Invoke("read_record", <<M, off>>))

\* the padding left when the new value is written into the slot of rsiz
\* bytes, and what adjust_record cuts from it
Padding(rsiz) == rsiz - Needed
CutOff(rsiz) ==
    LET psiz == Padding(rsiz)
        nsiz == (psiz \div db.align_) * db.align_
    IN IF (psiz > INT16_MAX \/ psiz > rsiz \div 2) /\ nsiz >= db.rhsiz_ THEN nsiz ELSE 0

\* C29: a replacement that fits in the slot of the record leaves the record
\* at its offset with the new value, and whenever the padding that results
\* is one alignment unit or more, a new free block follows the record
C29_InPlaceSplitsPadding ==
    [][Replaced /\ gh'.last.ok
          => LET kbuf == KeyOf(gh'.last.key)
                 at == Standpoint(Cur, kbuf)
                 now == Standpoint(Prime, kbuf)
             IN Needed <= at.rec.rsiz
                   => /\ now.found /\ now.rec.off = at.rec.off
                      /\ now.rec.vbuf = ValOf(gh'.last.val)
                      /\ Padding(at.rec.rsiz) >= db.align_
                            => /\ now.rec.rsiz < at.rec.rsiz
                               /\ FreeAt(Prime, now.rec.off + now.rec.rsiz,
                                         at.rec.rsiz - now.rec.rsiz)]_vars

\* C29 as the code has it: the record stays at its offset with its children
\* and the new value; the padding is cut only when it is more than half of
\* the slot (or more than INT16_MAX) and its aligned part can hold the header
\* of a record: that part then is a free block behind the record, in the
\* pool unless the pool is full; otherwise the slot and the record area stay
\* as they are, whatever the padding is
C29_InPlaceSplitsLargePadding ==
    [][Replaced /\ gh'.last.ok
          => LET kbuf == KeyOf(gh'.last.key)
                 at == Standpoint(Cur, kbuf)
                 now == Standpoint(Prime, kbuf)
                 nsiz == CutOff(at.rec.rsiz)
                 noff == at.rec.off + at.rec.rsiz - nsiz
             IN Needed <= at.rec.rsiz
                   => /\ now.found /\ now.rec.off = at.rec.off /\ now.entoff = at.entoff
                      /\ now.rec.vbuf = ValOf(gh'.last.val)
                      /\ now.rec.left = at.rec.left /\ now.rec.right = at.rec.right
                      /\ now.rec.rsiz = at.rec.rsiz - nsiz
                      /\ now.rec.psiz = Padding(at.rec.rsiz) - nsiz
                      /\ nsiz > 0 => /\ FreeAt(Prime, noff, nsiz)
                                     /\ [off |-> noff, rsiz |-> nsiz] \in db'.fbp_
                                           \/ Cardinality(db.fbp_) >= db.fbpnum_
                      /\ nsiz = 0 => /\ AreaBlocks(Prime, db'.roff_) = AreaBlocks(Cur, db.roff_)
                                     /\ db'.fbp_ = db.fbp_
                      /\ db'.lsiz_ = db.lsiz_ /\ db'.count_ = db.count_]_vars

\* a set has put a short value into a slot of five alignment units: the
\* record is at the start of the slot and the rest of it is a free block
C29_Witness ==
    /\ gh.last.kind = "set" /\ gh.last.ok /\ gh.last.val = 1
    /\ LET at == Standpoint(Cur, KeyOf(gh.last.key))
       IN /\ at.found /\ at.rec.rsiz = 2 * db.align_
          /\ FreeAt(Cur, at.rec.off + at.rec.rsiz, 3 * db.align_)
          /\ [off |-> at.rec.off + at.rec.rsiz, rsiz |-> 3 * db.align_] \in db.fbp_

\* the padding of a whole alignment unit or more was left in the slot
PaddingKept ==
    [][Replaced /\ gh'.last.ok
          => LET at == Standpoint(Cur, KeyOf(gh'.last.key))
             IN ~(Needed <= at.rec.rsiz /\ Padding(at.rec.rsiz) >= db.align_
                     /\ CutOff(at.rec.rsiz) = 0)]_vars

\* the blocks of the pool that can hold a record of rsiz bytes and are the
\* first that fetch_free_block meets
BestFits(rsiz) ==
    LET cand == {b \in db.fbp_ : b.rsiz >= rsiz}
    IN {b \in cand : \A c \in cand : b.rsiz <= c.rsiz}

\* what a replacement that does not fit does apart from the choice of the
\* new slot: the old slot is a free block, the record has its new value and
\* its children at another offset, the slot that led to it leads to the new
\* offset, the trees hold the keys they held, every other key has its value
\* and the record area is made of the records of the trees and free blocks
Relocated(kbuf, at, now) ==
    /\ now.found /\ now.rec.off # at.rec.off
    /\ now.rec.vbuf = ValOf(gh'.last.val)
    /\ FreeAt(Prime, at.rec.off, at.rec.rsiz)
    /\ now.rec.left = at.rec.left /\ now.rec.right = at.rec.right
    /\ now.entoff = at.entoff
    /\ SlotValue(Cur, kbuf, at.entoff) = at.rec.off
    /\ SlotValue(Prime, kbuf, at.entoff) = now.rec.off
    /\ \A bidx \in 0..(db.bnum_ - 1) :
          Under(Prime, get_bucket(Prime, bidx), ChainFuel(Prime))
             = Under(Cur, get_bucket(Cur, bidx), ChainFuel(Cur))
    /\ \A k \in Keys \ {gh'.last.key} : Get(Prime, k) = Get(Cur, k)
    /\ Reachable(Prime) = {b \in AreaBlocks(Prime, db'.roff_) : b[2] = "rec"}
    /\ db'.count_ = db.count_

\* C30: a replacement that does not fit in the slot of the record makes the
\* old slot a free block and writes the record with its children into the
\* best fitting block of the pool, or at the end of the file when the pool
\* has none; the slot that led to the record leads to the new offset and
\* every key stays reachable
C30_RelocationTakesBestFit ==
    [][Replaced /\ gh'.last.ok
          => LET kbuf == KeyOf(gh'.last.key)
                 at == Standpoint(Cur, kbuf)
                 now == Standpoint(Prime, kbuf)
                 fits == BestFits(Needed + calc_record_padding(Cur, Needed))
             IN Needed > at.rec.rsiz
                   => /\ Relocated(kbuf, at, now)
                      /\ IF fits # {} THEN now.rec.off \in {b.off : b \in fits}
                         ELSE now.rec.off = db.lsiz_]_vars

\* C30 as the code has it: the same, but a replacement made by the visitor
\* of iterate never takes a block of the pool, its record goes to the end
\* of the file
C30_RelocationKeepsTree ==
    [][Replaced /\ gh'.last.ok
          => LET kbuf == KeyOf(gh'.last.key)
                 at == Standpoint(Cur, kbuf)
                 now == Standpoint(Prime, kbuf)
                 fits == BestFits(Needed + calc_record_padding(Cur, Needed))
             IN Needed > at.rec.rsiz
                   => /\ Relocated(kbuf, at, now)
                      /\ IF fits # {} /\ gh'.last.kind # "iterate"
                         THEN now.rec.off \in {b.off : b \in fits}
                         ELSE now.rec.off = db.lsiz_]_vars

\* a set has moved a record that has a child or hangs under another
\* record into a block of the pool: the record lies before the end of the
\* file, and its old slot is a free block behind it
C30_Witness ==
    /\ gh.last.kind = "set" /\ gh.last.ok /\ gh.last.path = "relocate"
    /\ LET at == Standpoint(Cur, KeyOf(gh.last.key))
       IN /\ at.found /\ at.rec.left + at.rec.right + at.entoff > 0
          /\ at.rec.off + at.rec.rsiz < db.lsiz_
          /\ \E b \in AreaBlocks(Cur, db.roff_) : b[2] = "free" /\ b[1] > at.rec.off

(***************************************************************************)
(* The calls of threads that run together (SpecConc).                      *)
(***************************************************************************)
\* the thread t has made a call and the call has returned
HasReturned(t) == th[t].pc = "done" /\ th[t].op # "none"

\* the calls made so far are on keys of different buckets
OnOtherBuckets ==
    \A t, u \in Threads :
        t # u /\ th[t].op # "none" /\ th[u].op # "none"
           => HashMod(hash_record(th[t].kbuf), db.bnum_) # HashMod(hash_record(th[u].kbuf), db.bnum_)

\* C7: calls of set, get and remove that run together on keys of different
\* buckets all return without an error (but for NOREC, the answer of get and
\* remove for a key that is not there); a get returns a value that a set has
\* written as a whole, and once the calls have returned every key holds what
\* the last write to it has left and count() counts the keys
C7_DisjointCallsComplete ==
    OnOtherBuckets
       => /\ \A t \in Threads :
                HasReturned(t)
                   => /\ th[t].ok \/ (th[t].err = "NOREC" /\ th[t].op \in {"remove", "get"})
                      /\ th[t].op = "get" /\ th[t].ok
                            => th[t].out \in {ValOf(v) : v \in Vals}
          /\ (\A t \in Threads : th[t].pc = "done")
                => /\ \A k \in ConcKeys : Get(Cur, k) = gh.abs[k]
                   /\ count(Cur) = Cardinality({k \in Keys \cup ConcKeys : Get(Cur, k).ok})
                   /\ lk = NoLocks

\* two threads have made their calls on keys of different buckets, the
\* calls ran together and both have returned: a set that moved its record,
\* and a get
C7_Witness ==
    /\ OnOtherBuckets
    /\ \E t, u \in Threads :
          /\ HasReturned(t) /\ th[t].op = "set" /\ th[t].path = "relocate" /\ th[t].ok
          /\ HasReturned(u) /\ th[u].op = "get" /\ th[u].ok /\ th[u].out # <<>>
    /\ gh.own = 1

\* C8: every visit of a key finds what the writes to the key that have
\* returned from their critical section have left: the key is there or not
\* as the last of them left it, and a get reads the value the last of them
\* wrote, never a part of a write that is under way
C8_SameKeyLinearizable ==
    [][\A t \in Threads :
          th[t].pc = "search" /\ th'[t].pc # "search"
             => LET now == gh.abs[KeyIx(th[t].kbuf)]
                    found == IF th[t].op = "get" THEN th'[t].vok
                             ELSE th'[t].path \in {"remove", "inplace", "relocate"}
                IN /\ th'[t].ok
                   /\ found = now.ok
                   /\ th[t].op = "get" /\ found => th'[t].out = now.out]_vars

\* a get has returned the value of a set of another thread on the same key
\* that began before the get and moved the record
C8_Witness ==
    \E t, u \in Threads :
        /\ t # u /\ th[t].kbuf = th[u].kbuf
        /\ HasReturned(t) /\ th[t].op = "set" /\ th[t].path = "relocate" /\ th[t].ok
        /\ HasReturned(u) /\ th[u].op = "get" /\ th[u].ok /\ th[u].out = th[t].vbuf
        /\ gh.own = 1

(***************************************************************************)
(* The free block pool alone: blocks are inserted into the pool of a new   *)
(* database and fetched from it.                                           *)
(***************************************************************************)
MaxBlockOps == 5

BlockFpows == {0, 1, 2}
BlockOffs == {96, 104, 112, 120}
BlockSizes == {8, 16, 24}

InitBlocks ==
    /\ \E fpow \in BlockFpows :
          LET Started(M) == db = M.db /\ core = M.core /\ disk = M.disk /\ lk = M.lk
          IN Started(Invoke("open", <<NewMachine([Tune(TSMALL) EXCEPT !.fpow = fpow]),
                                      {"OWRITER", "OCREATE"}>>))
    /\ th = IdleThreads
    /\ gh = Ghost0

\* insert_free_block(off, rsiz): path tells whether the pool has grown, has
\* given up a block for the new one, or is as it was
KInsert ==
    \E off \in BlockOffs, rsiz \in BlockSizes :
        LET Inserted(M) ==
                /\ Store(M)
                /\ gh' = [gh EXCEPT !.nops = @ + 1,
                                    !.last = [NoOp EXCEPT
                                                 !.kind = "insert", !.key = off, !.val = rsiz,
                                                 !.path = IF M.db.fbp_ = db.fbp_ THEN "kept"
                                                          ELSE IF Cardinality(M.db.fbp_)
                                                                    = Cardinality(db.fbp_)
                                                          THEN "evicted" ELSE "added"]]
        IN /\ gh.nops < MaxBlockOps
           /\ Inserted(Invoke("insert_free_block", <<Cur, off, rsiz>>))
           /\ UNCHANGED th

\* fetch_free_block(rsiz): out is the block fetched
KFetch ==
    \E rsiz \in BlockSizes :
        LET Fetched(f) ==
                /\ Store(f.m)
                /\ gh' = [gh EXCEPT !.nops = @ + 1,
                                    !.last = [NoOp EXCEPT !.kind = "fetch", !.val = rsiz,
                                                          !.ok = f.ok,
                                                          !.out = <<f.fb.off, f.fb.rsiz>>]]
        IN /\ gh.nops < MaxBlockOps
           /\ Fetched(Invoke("fetch_free_block", <<Cur, rsiz>>))
           /\ UNCHANGED th

NextBlocks == KInsert \/ KFetch

SpecBlocks == InitBlocks /\ [][NextBlocks]_vars

\* the smallest blocks of a pool, and of them the one with the highest offset
Smallest(fbp) ==
    LET least == {b \in fbp : \A c \in fbp : b.rsiz <= c.rsiz}
    IN CHOOSE b \in least : \A c \in least : b.off >= c.off

\* C32: the pool never holds more than 2^fpow blocks; an insert into a pool
\* that is full puts the block in the place of the smallest one when the
\* block is larger than it, and leaves the pool as it is otherwise; an
\* insert into a pool that has room adds the block
C32_PoolBounded ==
    [][/\ Cardinality(db'.fbp_) <= Pow2(db'.fpow_)
       /\ gh'.last.kind = "insert" /\ gh'.nops # gh.nops
             => LET fb == [off |-> gh'.last.key, rsiz |-> gh'.last.val]
                IN IF Cardinality(db.fbp_) < db.fbpnum_
                   THEN db'.fbp_ = db.fbp_ \cup {fb}
                   ELSE IF db.fbp_ # {} /\ fb.rsiz > Smallest(db.fbp_).rsiz
                   THEN db'.fbp_ = (db.fbp_ \ {Smallest(db.fbp_)}) \cup {fb}
                   ELSE db'.fbp_ = db.fbp_]_vars

\* a block was inserted into a pool of four blocks and has taken the place
\* of the smallest of them
C32_Witness ==
    /\ gh.last.kind = "insert" /\ gh.last.path = "evicted"
    /\ db.fpow_ = 2 /\ Cardinality(db.fbp_) = 4
    /\ [off |-> gh.last.key, rsiz |-> gh.last.val] \in db.fbp_

\* C33: fetch_free_block(rsiz) takes out of the pool the smallest block of
\* rsiz bytes or more, of the blocks of that size the one with the highest
\* offset, and returns it; when no block is that large it fails and the
\* pool is as it was
C33_FetchBestFit ==
    [][gh'.last.kind = "fetch" /\ gh'.nops # gh.nops
          => LET cand == {b \in db.fbp_ : b.rsiz >= gh'.last.val}
             IN IF cand = {} THEN ~gh'.last.ok /\ db'.fbp_ = db.fbp_
                ELSE /\ gh'.last.ok
                     /\ gh'.last.out = <<Smallest(cand).off, Smallest(cand).rsiz>>
                     /\ db'.fbp_ = db.fbp_ \ {Smallest(cand)}]_vars

\* a block was fetched from a pool that held a smaller block, two blocks of
\* the size fetched and a bigger one: the one with the highest offset
C33_Witness ==
    /\ gh.last.kind = "fetch" /\ gh.last.ok /\ gh.last.val = 16
    /\ gh.last.out[2] = 16 /\ gh.last.out[1] > 96
    /\ \E a, b, c \in db.fbp_ :
          /\ a.rsiz = 8 /\ b.rsiz = 16 /\ b.off < gh.last.out[1] /\ c.rsiz = 24

(***************************************************************************)
(* The record area under every call that rewrites it: set and remove,      *)
(* iterate with visitors that replace and remove, defrag in steps and as a *)
(* whole pass, and transactions that are committed or aborted.             *)
(***************************************************************************)
MaxTileOps == 3

\* the visitors: one decision for all keys, or a decision for one key
TileVisitors ==
    {[x \in {KeyOf(j) : j \in Keys} |-> d] : d \in Decisions}
       \cup {[x \in {KeyOf(j) : j \in Keys} |->
                 IF x = KeyOf(k) THEN d ELSE [act |-> "NOP", vbuf |-> <<>>]] :
             k \in Keys, d \in Decisions}

InitTile ==
    /\ \E M \in IterStarts : db = M.db /\ core = M.core /\ disk = M.disk /\ lk = M.lk
    /\ th = IdleThreads
    /\ gh = Ghost0

\* the history after a call: its kind, its outcome, in val the step of a
\* defrag and in out the size of the file before the call
TileDone(kind, val, M) ==
    /\ Store([M EXCEPT !.ok = TRUE, !.err = "SUCCESS"])
    /\ gh' = [gh EXCEPT !.nops = @ + 1,
                         !.last = [DoneM(kind, M) EXCEPT !.val = val, !.out = <<db.lsiz_>>]]
    /\ UNCHANGED th

YMutate ==
    \E c \in TranCalls :
        LET Returned(r) ==
                /\ Store(r.m)
                /\ gh' = [gh EXCEPT !.nops = @ + 1, !.last = Done(c[1], c[2], c[3], r.c)]
        IN /\ gh.nops < MaxTileOps
           /\ Returned(Invoke("Call", <<Cur, c[1], KeyOf(c[2]), ValOf(c[3])>>))
           /\ UNCHANGED th

YIterate ==
    \E vis \in TileVisitors :
        /\ gh.nops < MaxTileOps
        /\ TileDone("iterate", 0, Invoke("iterate", <<Cur, vis, TRUE>>).m)

YDefrag ==
    \E step \in 0..2 :
        /\ gh.nops < MaxTileOps
        /\ TileDone("defrag", step, Invoke("defrag", <<Cur, step>>))

YBegin ==
    /\ ~db.tran_ /\ gh.nops < MaxTileOps
    /\ TileDone("begin", 0, Invoke("begin_transaction_try", <<Cur, FALSE>>))

YEnd ==
    \E commit \in BOOLEAN :
        /\ db.tran_
        /\ TileDone(IF commit THEN "commit" ELSE "abort", 0, Invoke("end_transaction", <<Cur, commit>>))

NextTile == YMutate \/ YIterate \/ YDefrag \/ YBegin \/ YEnd

SpecTile == InitTile /\ [][NextTile]_vars

\* C34: between the calls the record area is made of records and free
\* blocks that follow one another from the start of the area to the end
\* of the file: every step by the size of a block meets the header of a
\* record or of a free block, and the last step ends at lsiz_
C34_AreaTiled ==
    /\ db.roff_ <= db.lsiz_
    /\ \A b \in AreaBlocks(Cur, db.roff_) : b[2] \in {"rec", "free"} /\ b[1] < db.lsiz_

\* an iterate has replaced and removed records of an area that held a free
\* block: the area holds two free blocks or more and a record behind them
C34_Witness ==
    /\ gh.last.kind = "iterate" /\ gh.last.ok
    /\ LET area == AreaBlocks(Cur, db.roff_)
       IN /\ Cardinality({b \in area : b[2] = "free"}) >= 2
          /\ \E b, c \in area : b[2] = "free" /\ c[2] = "rec" /\ b[1] < c[1]

\* the end of the last record of the area, or the start of the area when it
\* holds no record
LastRecordEnd(M) ==
    LET recs == {b \in AreaBlocks(M, M.db.roff_) : b[2] = "rec"}
        last == CHOOSE b \in recs : \A c \in recs : c[1] <= b[1]
    IN IF recs = {} THEN M.db.roff_
       ELSE last[1] + Invoke("read_record", <<M, last[1]>>).rsiz

\* C37: after defrag(0) has returned true the record area holds no free
\* block and the file ends where its last record ends
C37_FullDefragCompacts ==
    (gh.last.kind = "defrag" /\ gh.last.val = 0 /\ gh.last.ok)
        => /\ \A b \in AreaBlocks(Cur, db.roff_) : b[2] = "rec"
           /\ db.lsiz_ = LastRecordEnd(Cur)

\* a whole pass over an area that held free blocks and records: the file
\* is shorter than before and still holds a record
C37_Witness ==
    /\ gh.last.kind = "defrag" /\ gh.last.val = 0 /\ gh.last.ok
    /\ db.lsiz_ < gh.last.out[1]
    /\ db.roff_ < db.lsiz_

(***************************************************************************)
(* The close of a database whose transaction is open: a writer begins a    *)
(* transaction, sets and removes records and defragments in it, and closes *)
(* the database without ending the transaction; the database is then       *)
(* opened again.                                                           *)
(***************************************************************************)
MaxShutOps == 3

ShutModes == {{"OWRITER"}, {"OREADER"}, {"OWRITER", "OAUTOTRAN"}}

InitShut ==
    /\ \E M \in TranStarts : db = M.db /\ core = M.core /\ disk = M.disk /\ lk = M.lk
    /\ th = IdleThreads
    /\ gh = Ghost0

ShutDone(kind, M) ==
    /\ Store([M EXCEPT !.ok = TRUE, !.err = "SUCCESS"])
    /\ gh' = [gh EXCEPT !.nops = @ + 1, !.last = DoneM(kind, M),
                        !.snap = IF kind = "begin" THEN View(Cur) ELSE @,
                        !.muts = IF kind = "begin" THEN 0 ELSE @]
    /\ UNCHANGED th

QBegin ==
    \E hard \in BOOLEAN :
        /\ db.omode # {} /\ ~db.tran_ /\ gh.last.kind = "none"
        /\ ShutDone("begin", Invoke("begin_transaction_try", <<Cur, hard>>))

QMutate ==
    \E c \in TranCalls :
        LET Returned(r) == Store(r.m) /\ gh' = Record(gh, c[1], c[2], c[3], r.c)
        IN /\ db.omode # {} /\ db.tran_ /\ gh.nops < MaxShutOps
           /\ Returned(Invoke("Call", <<Cur, c[1], KeyOf(c[2]), ValOf(c[3])>>))
           /\ UNCHANGED th

QDefrag ==
    \E step \in 0..1 :
        /\ db.omode # {} /\ db.tran_ /\ gh.nops < MaxShutOps
        /\ ShutDone("defrag", Invoke("defrag", <<Cur, step>>))

QClose == db.omode # {} /\ db.tran_ /\ ShutDone("close", Invoke("close", <<Cur>>))

QOpen ==
    \E mode \in ShutModes :
        /\ db.omode = {} /\ gh.last.kind = "close"
        /\ ShutDone("open", Invoke("open", <<Cur, mode>>))

NextShut == QBegin \/ QMutate \/ QDefrag \/ QClose \/ QOpen

SpecShut == InitShut /\ [][NextShut]_vars

\* C35: a database closed with its transaction open opens again with the
\* count and the value of every key it had when the transaction began
C35_CloseAborts ==
    gh.last.kind = "open" => gh.last.ok /\ ~db.tran_ /\ View(Cur) = gh.snap

\* two writes went into the transaction, the table had changed when the
\* database was closed, and it has been opened again
C35_Witness ==
    /\ gh.last.kind = "open" /\ gh.last.ok
    /\ gh.muts = 2
    /\ \E k \in Keys : gh.wr[k].op = "set" /\ gh.snap.vals[k].out # ValOf(gh.wr[k].val)

(***************************************************************************)
(* The fatal flag of an open database: the first byte of a record is       *)
(* damaged on the device, so that the calls that read the record fail with *)
(* BROKEN and set_error raises the flag; the writer then works on: calls   *)
(* on keys, transactions committed and aborted, synchronize and clear.     *)
(* gh.abs tells whether the device has been damaged.                       *)
(***************************************************************************)
MaxStickyOps == 3

InitSticky ==
    /\ \E M \in TranStarts : db = M.db /\ core = M.core /\ disk = M.disk /\ lk = M.lk
    /\ th = IdleThreads
    /\ gh = [Ghost0 EXCEPT !.abs = FALSE]

StickyDone(kind, M) ==
    /\ Store([M EXCEPT !.ok = TRUE, !.err = "SUCCESS"])
    /\ gh' = [gh EXCEPT !.nops = @ + 1, !.last = DoneM(kind, M)]
    /\ UNCHANGED th

\* the device loses the first byte of a record
JDamage ==
    \E b \in AreaBlocks(Cur, db.roff_) :
        /\ ~gh.abs /\ b[2] = "rec"
        /\ disk' = [disk EXCEPT !.data = PutBytes(@, b[1], <<0>>)]
        /\ gh' = [gh EXCEPT !.abs = TRUE, !.last = [NoOp EXCEPT !.kind = "damage", !.key = b[1]]]
        /\ UNCHANGED <<db, core, lk, th>>

JCall ==
    \E c \in TranCalls \cup {<<"get", k, 1>> : k \in Keys} :
        LET Returned(r) ==
                /\ Store(r.m)
                /\ gh' = [gh EXCEPT !.nops = @ + 1, !.last = Done(c[1], c[2], c[3], r.c)]
        IN /\ gh.nops < MaxStickyOps
           /\ Returned(Invoke("Call", <<Cur, c[1], KeyOf(c[2]), ValOf(c[3])>>))
           /\ UNCHANGED th

JBegin ==
    /\ ~db.tran_ /\ gh.nops < MaxStickyOps
    /\ StickyDone("begin", Invoke("begin_transaction_try", <<Cur, FALSE>>))

JEnd ==
    \E commit \in BOOLEAN :
        /\ db.tran_
        /\ StickyDone(IF commit THEN "commit" ELSE "abort", Invoke("end_transaction", <<Cur, commit>>))

JSync ==
    /\ gh.nops < MaxStickyOps
    /\ StickyDone("sync", Invoke("synchronize", <<Cur, FALSE>>))

JClear ==
    /\ gh.nops < MaxStickyOps
    /\ StickyDone("clear", Invoke("clear", <<Cur>>))

NextSticky == JDamage \/ JCall \/ JBegin \/ JEnd \/ JSync \/ JClear

SpecSticky == InitSticky /\ [][NextSticky]_vars

\* C36: the fatal flag that a call has left in flags_ is there after every
\* further call on the open database
C36_FatalSticky ==
    [][HasFlag(db.flags_, FFATAL) /\ db'.omode # {} => HasFlag(db'.flags_, FFATAL)]_vars

\* the part that holds: the flag stays through every call but clear and
\* the abort of a transaction
FatalStaysButClearAbort ==
    [][HasFlag(db.flags_, FFATAL) /\ db'.omode # {} /\ gh'.last.kind \notin {"clear", "abort"}
            => HasFlag(db'.flags_, FFATAL)]_vars

(***************************************************************************)
(* The writes of the calls in the auto transaction mode: a writer with no  *)
(* transaction of its own sets and removes records, with the automatic     *)
(* defragmentation off or on, runs iterate with visitors that replace and  *)
(* remove, and calls accept on a cursor.  gh.last.path tells where the     *)
(* writes of the last call to the bucket table and the record area fell.   *)
(***************************************************************************)
MaxInAutoOps == 2

InAutoStarts ==
    {Succeed(Invoke("Cursor_jump", <<Cursor([M EXCEPT !.db.dfunit_ = u]), 1>>)) :
        M \in AutoStarts, u \in 0..1}

InitInAuto ==
    /\ \E M \in InAutoStarts : db = M.db /\ core = M.core /\ disk = M.disk /\ lk = M.lk
    /\ th = IdleThreads
    /\ gh = Ghost0

\* the persistent states of steps from the i-th on in which the file has
\* changed from the offset lo on: "outside" when one of these writes found
\* no transaction of the file begun, "inside" when all of them found one,
\* "none" when there is no such write
RECURSIVE WritesFall(_, _, _, _)
WritesFall(prev, steps, i, lo) ==
    LET Tail2(dk) == SubSeq(dk.data, lo + 1, Len(dk.data))
        Later(now) == WritesFall(now, steps, i + 1, lo)
        Here(now, rest) ==
            IF Tail2(now) = Tail2(prev) THEN rest
            ELSE IF ~prev.wal.magic \/ rest = "outside" THEN "outside"
            ELSE "inside"
    IN IF i > Len(steps) THEN "none"
       ELSE IF "sync" \in DOMAIN steps[i] THEN WritesFall(prev, steps, i + 1, lo)
       ELSE Here(steps[i], Later(steps[i]))

InAutoDone(kind, M) ==
    /\ Store([M EXCEPT !.ok = TRUE, !.err = "SUCCESS", !.steps = <<>>])
    /\ gh' = [gh EXCEPT !.nops = @ + 1,
                        !.last = [DoneM(kind, M) EXCEPT
                                     !.path = WritesFall(disk, M.steps, 1, db.boff_)]]
    /\ UNCHANGED th

WCall ==
    \E c \in TranCalls :
        LET Returned(r) ==
                /\ Store(r.m)
                /\ gh' = [gh EXCEPT !.nops = @ + 1,
                                    !.last = [Done(c[1], c[2], c[3], r.c) EXCEPT
                                                 !.out = <<r.c.path>>,
                                                 !.path = WritesFall(disk, r.m.steps, 1, db.boff_)]]
        IN /\ gh.nops < MaxInAutoOps
           /\ Returned(Invoke("Call", <<Cur, c[1], KeyOf(c[2]), ValOf(c[3])>>))
           /\ UNCHANGED th

WIterate ==
    \E vis \in TileVisitors :
        /\ gh.nops < MaxInAutoOps
        /\ InAutoDone("iterate", Invoke("iterate", <<Cur, vis, TRUE>>).m)

WAccept ==
    \E dec \in Decisions :
        /\ gh.nops < MaxInAutoOps
        /\ InAutoDone("accept", Invoke("Cursor_accept", <<Cur, 1, dec, TRUE, FALSE>>))

WJump ==
    /\ gh.nops < MaxInAutoOps
    /\ InAutoDone("jump", Invoke("Cursor_jump", <<Cur, 1>>))

NextInAuto == WCall \/ WIterate \/ WAccept \/ WJump

SpecInAuto == InitInAuto /\ [][NextInAuto]_vars

\* C31: in the auto transaction mode, with no transaction of the caller
\* open, no call writes to the bucket table or to the record area while
\* no transaction of the file is begun
C31_WritesInTransaction ==
    db.autotran_ /\ ~db.tran_ => gh.last.path # "outside"

\* the part that holds: the writes of set and remove themselves, with the
\* automatic defragmentation off, and those of the passes and the cursor
\* that go through accept_impl
AutoCallWritesInside ==
    gh.last.kind \in {"set", "remove"} /\ db.dfunit_ = 0 => gh.last.path # "outside"

(***************************************************************************)
(* The automatic defragmentation at the end of accept: two threads call    *)
(* set, remove and get on a database tuned with tune_defrag; the counter   *)
(* of the fragments is as the calls that filled the database left it, or   *)
(* has gone over HDBDFRGMAX while the promotions of earlier calls failed.  *)
(***************************************************************************)
MaxTrigOps == 2

TrigUnits == {1, 2}
TrigStarts ==
    UNION {{M, [M EXCEPT !.db.frgcnt_ = HDBDFRGMAX + u]} :
              M \in {Load(Invoke("open", <<NewMachine([Tune(TSMALL) EXCEPT !.dfunit = u]),
                                           {"OWRITER", "OCREATE"}>>),
                          Filled \o <<<<"set", NumKeys + 1, 2>>>>) : u \in TrigUnits},
              u \in {1}}

InitTrig ==
    /\ \E M \in TrigStarts : db = M.db /\ core = M.core /\ disk = M.disk /\ lk = M.lk
    /\ gh = Ghost0
    /\ th = IdleThreads

EStart(t) ==
    \E c \in ConcCalls :
        /\ gh.nops < MaxTrigOps /\ th[t].pc = "done"
        /\ th' = [th EXCEPT ![t] = NewCall(c[1], KeyOf(c[2]), ValOf(c[3]))]
        /\ gh' = [gh EXCEPT !.nops = @ + 1]
        /\ UNCHANGED <<db, core, disk, lk>>

\* the thread t takes the next step of its call; gh.last keeps the step
EStep(t) ==
    LET Stepped(r) == Store(r.m) /\ th' = [th EXCEPT ![t] = r.c]
    IN /\ th[t].pc # "done" /\ AcceptEnabled(Cur, th[t], t)
       /\ Stepped(Invoke("AcceptStep", <<Cur, th[t], t>>))
       /\ gh' = [gh EXCEPT !.last = [NoOp EXCEPT !.kind = th[t].pc, !.key = t,
                                                 !.val = db.frgcnt_ - db'.frgcnt_,
                                                 !.ok = CanPromote(lk.mlock, t),
                                                 !.path = IF disk' # disk THEN "moved" ELSE "none"]]

NextTrig == \E t \in Threads : EStart(t) \/ EStep(t)

SpecTrig == InitTrig /\ [][NextTrig]_vars

\* the step of the thread t after it has released its stripe of rlock_
AtPost(t) == th[t].pc = "post" /\ th'[t].pc # "post"

\* C38: the step of accept after the release of the stripe lock
\* defragments only when the thread is the only holder of mlock_ and no
\* stripe of rlock_ is held, so that no other call on a key is under way;
\* when the thread is not the only holder the step leaves the database and
\* the file as they are; and a step that defragments takes at most
\* HDBDFRGMAX off the counter of the fragments, for a pass of at most
\* HDBDFRGMAX * HDBDFRGCEF steps
C38_AutoDefragPromoted ==
    [][\A t \in Threads :
          AtPost(t) =>
             /\ (db'.frgcnt_ # db.frgcnt_ \/ disk' # disk \/ db'.lsiz_ # db.lsiz_)
                   => /\ lk.mlock = {<<t, "r">>} /\ lk.rlock = {}
                      /\ \A u \in Threads \ {t} : th[u].pc \in {"done", "begin", "result"}
             /\ ~CanPromote(lk.mlock, t)
                   => db' = db /\ disk' = disk /\ core' = core
             /\ db.frgcnt_ - db'.frgcnt_ <= HDBDFRGMAX
             /\ db'.frgcnt_ # db.frgcnt_
                   => /\ db'.frgcnt_ = db.frgcnt_ - Min(db.frgcnt_, HDBDFRGMAX)
                      /\ db' = [defrag_impl(Cur, Min(db.frgcnt_, HDBDFRGMAX) * HDBDFRGCEF).db
                                   EXCEPT !.frgcnt_ = db'.frgcnt_]]_vars

\* a thread has defragmented at the end of its call with more than
\* HDBDFRGMAX fragments counted, and the file has changed
C38_Witness ==
    /\ gh.last.kind = "post" /\ gh.last.val = HDBDFRGMAX /\ gh.last.path = "moved"
    /\ db.frgcnt_ > 0

\* a thread has come to the end of its call while the other thread held
\* mlock_, with the counter over the unit: it has not defragmented
TrigSkipped ==
    /\ gh.last.kind = "post" /\ ~gh.last.ok /\ gh.last.val = 0
    /\ db.dfunit_ > 0 /\ db.frgcnt_ >= db.dfunit_

(***************************************************************************)
(* The locks at the return of the calls: two threads call set, add, remove *)
(* and get and the calls on transactions, on a database in the auto        *)
(* transaction mode whose file is sound or has lost the first byte of a    *)
(* record on the device, on a reader and on a closed database, so that the *)
(* calls return by their failures too: INVALID, NOPERM, NOREC, DUPREC,     *)
(* LOGIC, and BROKEN before and in the transaction of one mutation.        *)
(***************************************************************************)
MaxIdleOps == 2

\* the file of M with the first byte of the block at off lost
Damaged(M, off) == [M EXCEPT !.disk.data = PutBytes(@, off, <<0>>)]

IdleStarts ==
    LET W == LockFresh(TSMALL)
        Shut(M) == [M EXCEPT !.ok = TRUE, !.err = "SUCCESS", !.steps = <<>>]
        closed == Shut(Invoke("close", <<W>>))
    IN {W, closed, Shut(Invoke("open", <<closed, {"OREADER"}>>))}
          \cup {Damaged(W, b[1]) : b \in {x \in AreaBlocks(W, W.db.roff_) : x[2] = "rec"}}

InitIdle ==
    /\ \E M \in IdleStarts : db = M.db /\ core = M.core /\ disk = M.disk /\ lk = M.lk
    /\ gh = Ghost0
    /\ th = IdleThreads

IdleCalls == ConcCalls \cup {<<"add", k, 2>> : k \in ConcKeys} \cup {<<"remove", 3, 1>>}

IStartCall(t) ==
    \E c \in IdleCalls :
        /\ gh.nops < MaxIdleOps /\ th[t].pc = "done"
        /\ th' = [th EXCEPT ![t] = NewCall(c[1], KeyOf(c[2]), ValOf(c[3]))]
        /\ gh' = [gh EXCEPT !.nops = @ + 1]
        /\ UNCHANGED <<db, core, disk, lk>>

IStartTran(t) ==
    \E c \in LockTranOps \ {<<"begin", TRUE>>} :
        /\ gh.nops < MaxIdleOps /\ th[t].pc = "done"
        /\ th' = [th EXCEPT ![t] = [NewCall(c[1], <<>>, <<>>) EXCEPT !.pc = "tb_lock",
                                                                   !.vok = c[2]]]
        /\ gh' = [gh EXCEPT !.nops = @ + 1]
        /\ UNCHANGED <<db, core, disk, lk>>

IStep(t) ==
    LET Stepped(r) == Store(r.m) /\ th' = [th EXCEPT ![t] = r.c]
    IN /\ th[t].pc \notin {"done", "tb_lock", "tb_sleep"} /\ AcceptEnabled(Cur, th[t], t)
       /\ Stepped(Invoke("AcceptStep", <<Cur, th[t], t>>))
       /\ UNCHANGED gh

ITran(t) ==
    LET Stepped(r) == Store(r.m) /\ th' = [th EXCEPT ![t] = r.c]
    IN /\ th[t].pc = "tb_lock" /\ CanLockWriter(lk.mlock)
       /\ Stepped(TranStep(Cur, th[t]))
       /\ UNCHANGED gh

NextIdle == \E t \in Threads : IStartCall(t) \/ IStartTran(t) \/ IStep(t) \/ ITran(t)

SpecIdle == InitIdle /\ [][NextIdle]_vars

\* the locks the thread t holds
Held(t) ==
    {<<"mlock_", h[2]>> : h \in {x \in lk.mlock : x[1] = t}}
       \cup {<<"rlock_", h[1]>> : h \in {x \in lk.rlock : x[2] = t}}
       \cup (IF lk.atlock = t THEN {<<"atlock_", 0>>} ELSE {})

\* C40: a thread whose call has returned, with success or with an error,
\* holds no lock, so that all the locks are free whenever no call is under
\* way
C40_LocksReleased ==
    /\ \A t \in Threads : th[t].pc = "done" => Held(t) = {}
    /\ (\A t \in Threads : th[t].pc = "done") => lk = NoLocks

\* no call is under way, one has removed or set a record, and one has
\* failed with BROKEN in the transaction of its own mutation
C40_Witness ==
    /\ \A t \in Threads : th[t].pc = "done"
    /\ db.autotran_
    /\ \E t \in Threads : th[t].op # "none" /\ th[t].ok /\ th[t].path # "none"
    /\ \E t \in Threads : ~th[t].ok /\ th[t].err = "BROKEN" /\ th[t].path # "none"

(***************************************************************************)
(* The wait of begin_transaction: threads call begin_transaction, which    *)
(* sleeps and tries again while a transaction is open, and                 *)
(* begin_transaction_try; the thread whose transaction is open sets and    *)
(* removes records and ends it.  gh.own is the thread whose transaction is *)
(* open, gh.abs the threads whose begin_transaction has slept.  A call     *)
(* that has begun takes its next step in the end (the scheduler is fair);  *)
(* nothing makes a thread begin a call.                                    *)
(***************************************************************************)
MaxWaitOps == 4

WaitCalls == {<<"set", 1, 2>>, <<"remove", 1, 1>>}

\* the runs begin with no transaction open or with the one of thread 1
InitWait ==
    /\ \E M \in TranStarts, begun \in BOOLEAN :
          LET Started(S) == db = S.db /\ core = S.core /\ disk = S.disk /\ lk = S.lk
          IN /\ Started(IF begun THEN Succeed(Invoke("begin_transaction_try", <<M, FALSE>>)) ELSE M)
             /\ gh = [Ghost0 EXCEPT !.own = IF begun THEN 1 ELSE 0, !.abs = {}]
    /\ th = IdleThreads

\* the thread t calls begin_transaction or begin_transaction_try
VStartBegin(t) ==
    \E op \in {"begin", "try"} :
        /\ gh.nops < MaxWaitOps /\ th[t].pc = "done" /\ gh.own # t
        /\ th' = [th EXCEPT ![t] = [NewCall(op, <<>>, <<>>) EXCEPT !.pc = "tb_lock"]]
        /\ gh' = [gh EXCEPT !.nops = @ + 1, !.abs = @ \ {t}]
        /\ UNCHANGED <<db, core, disk, lk>>

\* the thread t, whose transaction is open, calls end_transaction
VStartEnd(t) ==
    \E commit \in BOOLEAN :
        /\ th[t].pc = "done" /\ gh.own = t
        /\ th' = [th EXCEPT ![t] = [NewCall("end", <<>>, <<>>) EXCEPT !.pc = "tb_lock",
                                                                    !.vok = commit]]
        /\ UNCHANGED <<db, core, disk, lk, gh>>

\* the thread t, whose transaction is open, sets or removes a record
VMutate(t) ==
    \E c \in WaitCalls :
        LET Returned(r) == Store(r.m) /\ gh' = [gh EXCEPT !.nops = @ + 1]
        IN /\ gh.nops < MaxWaitOps /\ th[t].pc = "done" /\ gh.own = t
           /\ Returned(Invoke("Call", <<Cur, c[1], KeyOf(c[2]), ValOf(c[3])>>))
           /\ UNCHANGED th

\* a step of the thread t in a call on transactions
WaitStep(t) ==
    LET Owner(c) == IF ~(c.pc = "done" /\ c.ok) THEN gh.own
                    ELSE IF c.op = "end" THEN 0 ELSE t
        Stepped(r) ==
            /\ Store(r.m) /\ th' = [th EXCEPT ![t] = r.c]
            /\ gh' = [gh EXCEPT !.own = Owner(r.c),
                                !.abs = IF r.c.pc = "tb_sleep" THEN @ \cup {t} ELSE @]
    IN Stepped(TranStep(Cur, th[t]))

\* begin_transaction of the thread t finds a transaction open
Busy(t) == th[t].op = "begin" /\ db.omode # {} /\ db.writer_ /\ db.tran_

\* the thread t can take mlock_ and go on to begin or to end a transaction
CanEnter(t) == th[t].pc = "tb_lock" /\ ~Busy(t) /\ CanLockWriter(lk.mlock)

\* begin_transaction of the thread t gives mlock_ back and sleeps, or wakes
\* up
VWait(t) ==
    /\ \/ th[t].pc = "tb_sleep"
       \/ th[t].pc = "tb_lock" /\ Busy(t) /\ CanLockWriter(lk.mlock)
    /\ WaitStep(t)

\* the thread t begins its transaction, fails to, or ends it
VEnter(t) == CanEnter(t) /\ WaitStep(t)

NextWait ==
    \E t \in Threads : VStartBegin(t) \/ VStartEnd(t) \/ VMutate(t) \/ VWait(t) \/ VEnter(t)

\* the scheduler is fair to the calls under way: WF_vars(VWait(t)) and
\* WF_vars(VEnter(t)), the latter written out with CanEnter(t), which is
\* ENABLED <<VEnter(t)>>_vars
SpecWait ==
    /\ InitWait /\ [][NextWait]_vars
    /\ \A t \in Threads : WF_vars(VWait(t))
    /\ \A t \in Threads : ([]<>(~CanEnter(t))) \/ ([]<><<VEnter(t)>>_vars)

\* the call of begin_transaction by the thread t is waiting, has returned
\* true
Waiting(t) == th[t].op = "begin" /\ th[t].pc \in {"tb_lock", "tb_sleep"}
Obtained(t) == th[t].op = "begin" /\ th[t].pc = "done" /\ th[t].ok /\ gh.own = t

\* a transaction of another thread is open
OthersOpen(t) == db.tran_ /\ gh.own # t

\* C39 as stated: a begin_transaction that waits while a transaction is
\* open returns true in the end when that transaction is ended
C39_BlockedBeginReturns ==
    \A t \in Threads : [](Waiting(t) /\ db.tran_ /\ <>(~db.tran_) => <>Obtained(t))

\* C39: a begin_transaction that waits returns true in the end when from
\* some point on no transaction of another thread is open; that the
\* transaction open at the call is ended is not enough, since another one
\* can be begun before the waiting call tries again
C39_BlockedBeginReturnsWhenFree ==
    \A t \in Threads : <>[](~OthersOpen(t)) => [](Waiting(t) => <>Obtained(t))

\* begin_transaction of a thread has slept while the transaction of the
\* other thread was open, and has then returned true
C39_Witness ==
    \E t \in Threads : Obtained(t) /\ t \in gh.abs /\ db.tran_
====
